---- MODULE Spec2Model ----
(***************************************************************************)
(* MCBE-AI-Agent: the message broker (core/queue.py), the agent worker     *)
(* pool (services/agent/worker.py), the connection manager                 *)
(* (services/websocket/connection.py) and the WebSocket server             *)
(* (services/websocket/server.py) as one state machine.                    *)
(*                                                                         *)
(* All coroutines run on one asyncio event loop: a step of the model is    *)
(* the code a coroutine runs between two points where it suspends.         *)
(***************************************************************************)
EXTENDS Integers, Sequences, FiniteSets, TLC

---------------------------------------------------------------------------
(* Bounds of the model *)

\* submit_request calls made in a run (values taken by MessageBroker._sequence)
MaxRequests == 3
\* priorities passed to submit_request are 0..MaxPriority
MaxPriority == 1
\* queue_max_size is drawn from 1..MaxQueueSize
MaxQueueSize == 2
\* run_command calls made in a run
MaxFutures == 2

\* Settings.llm_worker_count (config/settings.py)
llm_worker_count == 2

\* the connection ids handed out (ConnectionState.id, a fresh uuid4 each)
Conns == {"c1"}
Workers == 1..llm_worker_count
Priorities == 0..MaxPriority
FutureIds == 1..MaxFutures

None == "None"
\* no text
NoResult == <<>>

---------------------------------------------------------------------------
(* Texts *)

\* "服务器繁忙，请稍后重试" sent through create_error_message (red, error prefix)
BusyError == [color |-> "red", text |-> "server busy, retry later"]
\* "命令执行失败: 连接已关闭"
ClosedResult == <<"command failed: connection closed">>
\* "命令执行失败: 连接不存在"
UnknownConnectionResult == <<"command failed: no such connection">>
\* "命令执行超时: 未收到游戏侧 commandResponse"
TimeoutResult == <<"command timed out: no commandResponse">>
\* "命令执行失败: {e}" for an exception e raised by websocket.send
SendFailedResult == <<"command failed: ", "send error">>
\* "命令执行成功"
SuccessResult == <<"command succeeded">>

---------------------------------------------------------------------------
VARIABLES
    \* MessageBroker
    request_queue,      \* _request_queue: the set of queued QueueItems
    sequence,           \* _sequence
    queue_max_size,     \* maxsize of _request_queue
    response_queues,    \* _response_queues: the ids that have a response queue
    queue_items,        \* the items held by each connection's asyncio.Queue object
    connection_locks,   \* _connection_locks: id -> index in locks, 0 when absent
    locks,              \* every asyncio.Lock created: [locked, waiters]
    conversation_histories, \* _conversation_histories: a dict, id -> message list
    \* AgentWorker
    worker_pc,          \* "get" | "wait_lock" | "locked" | "await_future"
    worker_item,        \* the QueueItem a worker took
    worker_lock,        \* the lock object _process_request got
    worker_future,      \* the future a run_command call awaits
    worker_result,      \* what the last run_command call returned
    run,                \* the chat run of _process_request_locked: its phase, the
                        \* history handed to the model, the chunk counter
    get_request_returns, \* per worker: the times get_request returned an item
    request_done_calls, \* per worker: its calls of request_done
    \* ConnectionManager / WebSocketServer
    conn_pc,            \* handle_connection: "new" | "open" (message loop) |
                        \* "socket_closed" | "unregistering" (awaits the sender) | "closed"
    connections,        \* ConnectionManager._connections
    sender_tasks,       \* ConnectionManager._sender_tasks
    sender,             \* each _response_sender task: [pc, response, cancel]
    pending_command_futures, \* ConnectionState.pending_command_futures (keys = futures)
    futures,            \* every future run_command created
    callbacks,          \* _cleanup_cancelled_future calls the loop has scheduled
    shutdown_pc,        \* shutdown_all: "idle" | "cancelling" | "closing" | "done"
    shutdown_list,      \* the rest of the list shutdown_all is iterating over
    ws_sent,            \* what the handler task sent to each socket
    sender_sent,        \* the stream chunks the sender task sent to each socket,
                        \* in order
    dev_mode,           \* WebSocketServer.dev_mode
    tokens,             \* JWTHandler: the stored token of each connection id
    state,              \* the ConnectionState of each connection
    \* stream_chat (one run of the engine)
    stream_sentence_mode, \* Settings.stream_sentence_mode
    ctx,                \* _HandlerContext: sequence, sentence_buffer, tool_events
    events,             \* the StreamEvents stream_chat has yielded, in order
    handler_pc,         \* the response handler: "idle" | "running" | "ended"
    chat_pc,            \* stream_chat: "idle" | "running" | "done"
    fed,                \* the text the model has produced so far in this run
    cuts,               \* the lengths of fed at which a delta ended
    node_events,        \* the function-tool events of the call-tools nodes, in order
    \* one call of AgentWorker._strip_reasoning_content, and a call on its result
    raw_history,        \* the list handed to the call (the caller keeps it)
    sanitized_messages, \* the list the call returned
    sanitized_again,    \* what the call on sanitized_messages returned
    strip_pc,           \* "idle" | "once" | "twice"
    \* one call of AgentWorker._trim_history
    trim_messages,      \* the list handed to the call
    trim_max_turns,     \* its max_turns argument
    trimmed,            \* the list the call returned
    trim_pc,            \* "idle" | "done"
    \* one connection's history under a ConversationManager
    cm_setting,         \* settings.max_history_turns
    cm_history,         \* the connection's stored history
    cm_chats,           \* the chat turns completed
    cm_forced,          \* the forced compressions done
    cm_call,            \* the last check_and_compress: its force, the history
                        \* it found and whether it compressed
    \* the saved sessions of a ConversationManager
    fs_clock,           \* datetime.now(), in seconds
    fs_files,           \* the files of data/conversations: name -> content
    fs_history,         \* per connection: the stored history
    fs_chats,           \* the chat turns completed
    fs_last,            \* the last operation, its arguments and what it returned
    \* history
    enter_order         \* per connection: the requests in the order they entered
                        \* _process_request_locked

brokerVars == <<request_queue, sequence, queue_max_size, response_queues,
                queue_items, connection_locks, locks, conversation_histories>>
taskVars == <<get_request_returns, request_done_calls>>
workerVars == <<worker_pc, worker_item, worker_lock, worker_future, worker_result, run,
                taskVars>>
authVars == <<dev_mode, tokens, state>>
connVars == <<conn_pc, connections, sender_tasks, sender, pending_command_futures,
              shutdown_pc, shutdown_list, ws_sent, sender_sent, authVars>>
futureVars == <<futures, callbacks>>
streamVars == <<stream_sentence_mode, ctx, events, handler_pc, chat_pc, fed, cuts,
                node_events>>
stripVars == <<raw_history, sanitized_messages, sanitized_again, strip_pc>>
trimVars == <<trim_messages, trim_max_turns, trimmed, trim_pc>>
\* the state of what is checked on its own, apart from the server
compressVars == <<cm_setting, cm_history, cm_chats, cm_forced, cm_call>>
sessionVars == <<fs_clock, fs_files, fs_history, fs_chats, fs_last>>
sideVars == <<trimVars, compressVars, sessionVars>>
vars == <<brokerVars, workerVars, connVars, futureVars, streamVars, stripVars,
          sideVars, enter_order>>

---------------------------------------------------------------------------
(* QueueItem: dataclass(order=True) compares the fields with compare=True in
   declaration order, that is (priority, sequence) *)

\* ChatRequest (models/messages.py): use_context is the field the worker
\* branches on and provider names the model it runs with; a request made
\* without a provider carries None; delivery is "tellraw" unless the request
\* is made with another one
ChatRequest(use_context) ==
    [use_context |-> use_context, provider |-> None, delivery |-> "tellraw"]

QueueItem(p, c, s, payload) ==
    [priority |-> p, connection_id |-> c, sequence |-> s, payload |-> payload]

NoItem == [priority |-> 0, connection_id |-> None, sequence |-> 0,
           payload |-> ChatRequest(TRUE)]

\* the order with sequence left out of the comparison
QueueItemLessByPriority(a, b) == a.priority < b.priority

QueueItemLess(a, b) ==
    \/ a.priority < b.priority
    \/ a.priority = b.priority /\ a.sequence < b.sequence

\* a queue that takes one item more than maxsize
FullWhenOver == Cardinality(request_queue) > queue_max_size

\* asyncio.PriorityQueue: full() is qsize() >= maxsize; items taken by a
\* worker are no longer counted
Full == Cardinality(request_queue) >= queue_max_size

\* the items the heap may hand out next: those no queued item is smaller than
Smallest(q) == {i \in q : \A j \in q : ~QueueItemLess(j, i)}

NewLock == [locked |-> FALSE, waiters |-> <<>>]

\* "response = None" in _response_sender
NoResponse == [type |-> "none", future |-> 0]

\* JWTHandler: the token stored for a connection id, as verify_token sees it
TokenStates == {"none", "valid", "expired"}

IdleSender == [pc |-> "none", response |-> NoResponse, cancel |-> FALSE]

\* a future: queued is TRUE once send_response has put it in a response queue,
\* callback once _cleanup_cancelled_future is added to it, resolutions counts
\* the set_result and cancel calls made on it
NoFuture == [state |-> "unborn", result |-> NoResult, conn |-> None, queued |-> FALSE,
             callback |-> FALSE, resolutions |-> 0]

\* ConnectionState as the dataclass constructs it
ConnectionState ==
    [authenticated |-> FALSE, player_name |-> None, context_enabled |-> TRUE,
     current_provider |-> None, current_template |-> "default",
     custom_variables |-> {}]

\* no chat run: the worker is outside _process_request_locked, or inside it
\* with the run left out of the picture
NoRun == [phase |-> "none", message_history |-> <<>>, sequence |-> 0, event_count |-> 0,
          provider |-> None]

\* _HandlerContext(): the fields of the context that decide what is yielded
_HandlerContext == [sequence |-> 0, sentence_buffer |-> <<>>, tool_events |-> <<>>]

\* everything but the arguments of the pure functions checked on their own
InitServerOf(connection_ids) ==
    /\ request_queue = {}
    /\ sequence = 0
    /\ queue_max_size \in 1..MaxQueueSize
    /\ response_queues = {}
    /\ queue_items = [c \in connection_ids |-> <<>>]
    /\ connection_locks = [c \in connection_ids |-> 0]
    /\ locks = <<>>
    /\ conversation_histories = <<>>
    /\ run = [w \in Workers |-> NoRun]
    /\ dev_mode \in BOOLEAN
    /\ tokens = [c \in connection_ids |-> "none"]
    /\ state = [c \in connection_ids |-> ConnectionState]
    /\ worker_pc = [w \in Workers |-> "get"]
    /\ worker_item = [w \in Workers |-> NoItem]
    /\ worker_lock = [w \in Workers |-> 0]
    /\ worker_future = [w \in Workers |-> 0]
    /\ worker_result = [w \in Workers |-> NoResult]
    /\ get_request_returns = [w \in Workers |-> 0]
    /\ request_done_calls = [w \in Workers |-> 0]
    /\ conn_pc = [c \in connection_ids |-> "new"]
    /\ connections = <<>>
    /\ sender_tasks = <<>>
    /\ sender = [c \in connection_ids |-> IdleSender]
    /\ pending_command_futures = [c \in connection_ids |-> {}]
    /\ futures = [f \in FutureIds |-> NoFuture]
    /\ callbacks = {}
    /\ shutdown_pc = "idle"
    /\ shutdown_list = <<>>
    /\ ws_sent = [c \in connection_ids |-> <<>>]
    /\ sender_sent = [c \in connection_ids |-> <<>>]
    /\ stream_sentence_mode \in BOOLEAN
    /\ ctx = _HandlerContext
    /\ events = <<>>
    /\ handler_pc = "idle"
    /\ chat_pc = "idle"
    /\ fed = <<>>
    /\ cuts = {}
    /\ node_events = <<>>
    /\ enter_order = [c \in connection_ids |-> <<>>]

\* the server with the connection ids of Conns
InitServer == InitServerOf(Conns)

\* no call of _strip_reasoning_content is looked at
StripIdle ==
    /\ raw_history = <<>>
    /\ sanitized_messages = <<>>
    /\ sanitized_again = <<>>
    /\ strip_pc = "idle"

\* no call of _trim_history is looked at
TrimIdle ==
    /\ trim_messages = <<>>
    /\ trim_max_turns = 0
    /\ trimmed = <<>>
    /\ trim_pc = "idle"

NoCall == [force |-> FALSE, before |-> <<>>, success |-> FALSE, called |-> FALSE]

CompressIdle ==
    /\ cm_setting = 0
    /\ cm_history = <<>>
    /\ cm_chats = 0
    /\ cm_forced = 0
    /\ cm_call = NoCall

NoOperation ==
    [op |-> "none", connection_id |-> None, arg |-> "", success |-> FALSE,
     result |-> None, accessed |-> {}]

SessionIdle ==
    /\ fs_clock = 0
    /\ fs_files = <<>>
    /\ fs_history = <<>>
    /\ fs_chats = 0
    /\ fs_last = NoOperation

SideIdle == TrimIdle /\ CompressIdle /\ SessionIdle

Init == InitServer /\ StripIdle /\ SideIdle

---------------------------------------------------------------------------
(* MessageBroker *)

\* submit_request: the sequence number is taken first, then put_nowait;
\* raised is TRUE when put_nowait raises QueueFull
submit_request(c, payload, p, raised) ==
    /\ sequence' = sequence + 1
    /\ raised = Full
    /\ request_queue' = IF Full THEN request_queue
                        ELSE request_queue \cup {QueueItem(p, c, sequence + 1, payload)}

\* register_connection: a queue, and a lock unless the id has one
register_connection(c) ==
    IF c \in response_queues
    THEN UNCHANGED <<response_queues, queue_items, connection_locks, locks>>
    ELSE /\ response_queues' = response_queues \cup {c}
         /\ queue_items' = [queue_items EXCEPT ![c] = <<>>]
         /\ IF connection_locks[c] = 0
            THEN /\ locks' = Append(locks, NewLock)
                 /\ connection_locks' = [connection_locks EXCEPT ![c] = Len(locks) + 1]
            ELSE UNCHANGED <<connection_locks, locks>>

\* get_conversation_history: a copy of the stored list, [] for an id without one
get_conversation_history(c) ==
    IF c \in DOMAIN conversation_histories THEN conversation_histories[c] ELSE <<>>

\* set_conversation_history: stored under the id, registered or not
set_conversation_history(c, history) ==
    conversation_histories' =
        [x \in DOMAIN conversation_histories \cup {c} |->
            IF x = c THEN history ELSE conversation_histories[x]]

\* clear_conversation_history: pop(connection_id, None)
clear_conversation_history(c) ==
    conversation_histories' =
        [x \in DOMAIN conversation_histories \ {c} |-> conversation_histories[x]]

\* unregister_connection: pops the queue, the history and the lock; the items left in the
\* popped queue are dropped as they are
unregister_connection(c) ==
    /\ response_queues' = response_queues \ {c}
    /\ clear_conversation_history(c)
    /\ connection_locks' = [connection_locks EXCEPT ![c] = 0]
    /\ queue_items' = [queue_items EXCEPT ![c] = IF c \in response_queues THEN <<>> ELSE @]

\* send_response: TRUE and the item is queued, or FALSE for an unknown id
send_response(c, item, sent) ==
    /\ sent = (c \in response_queues)
    /\ queue_items' = IF c \in response_queues
                      THEN [queue_items EXCEPT ![c] = Append(@, item)]
                      ELSE queue_items

---------------------------------------------------------------------------
(* asyncio.Future and asyncio.Lock *)

Done(f) == futures[f].state \in {"result", "cancelled"}

\* set_result without the done() test
SetResultAlways(fs, r) ==
    /\ futures' = [f \in FutureIds |->
                     IF f \in fs
                     THEN [futures[f] EXCEPT !.state = "result", !.result = r,
                                             !.resolutions = @ + 1]
                     ELSE futures[f]]
    /\ callbacks' = callbacks \cup {f \in fs : futures[f].callback}

\* the code's "if not future.done(): future.set_result(r)" on the futures fs;
\* the done callbacks of a future are scheduled when it completes
SetResultUnlessDone(fs, r) ==
    /\ futures' = [f \in FutureIds |->
                     IF f \in fs /\ ~Done(f)
                     THEN [futures[f] EXCEPT !.state = "result", !.result = r,
                                             !.resolutions = @ + 1]
                     ELSE futures[f]]
    /\ callbacks' = callbacks \cup {f \in fs : ~Done(f) /\ futures[f].callback}

\* the futures carried by run_command items
ItemFutures(items) ==
    {items[i].future : i \in {j \in DOMAIN items : items[j].type = "run_command"}}

RunCommandItem(f) == [type |-> "run_command", future |-> f]

Remove(s, x) == SelectSeq(s, LAMBDA y : y # x)

InSeq(s, x) == \E i \in DOMAIN s : s[i] = x

---------------------------------------------------------------------------
(* Message histories (pydantic_ai.messages) *)

\* Settings.max_history_turns, and the messages and parts of the histories
\* the pure functions are applied to
max_history_turns == 2
MaxMessages == 2
MaxParts == 1

\* A part: part_kind and content as in pydantic-ai; reasoning_content is an
\* attribute of that name on the part (None when it has none); nested is a
\* "reasoning_content" key inside a dict the part carries, such as
\* ToolCallPart.args or provider_details (None when there is none)
Part(kind, content, reasoning_content, nested) ==
    [part_kind |-> kind, content |-> content,
     reasoning_content |-> reasoning_content, nested |-> nested,
     tool_call_id |-> None]

TextPart(content) == Part("text", content, None, None)
ThinkingPart(content) == Part("thinking", content, None, None)
UserPromptPart(content) == Part("user-prompt", content, None, None)

ModelRequest(parts) == [kind |-> "ModelRequest", parts |-> parts]
ModelResponse(parts) == [kind |-> "ModelResponse", parts |-> parts]

HasPart(message, kind) ==
    \E i \in DOMAIN message.parts : message.parts[i].part_kind = kind

\* _sanitize_model_message applied to the parts of a ModelResponse: a
\* ThinkingPart loses its content, a part loses its reasoning_content
\* attribute; nothing below the part is visited
sanitize_part(part) ==
    LET thought == IF part.part_kind = "thinking" /\ part.content # ""
                   THEN [part EXCEPT !.content = ""] ELSE part
    IN IF thought.reasoning_content \notin {None, ""}
       THEN [thought EXCEPT !.reasoning_content = ""] ELSE thought

\* _clear_reasoning_content_in_object applied to a part of a deep copy: every
\* reasoning_content field at any depth is cleared; content is not a
\* reasoning_content field
clear_reasoning_content_in_part(part) ==
    [part EXCEPT !.reasoning_content = IF @ = None THEN None ELSE "",
                 !.nested = IF @ = None THEN None ELSE ""]

\* _strip_reasoning_content on one message: the light path for a
\* ModelResponse, a deep copy cleared recursively for anything else
strip_message(message) ==
    IF message.kind = "ModelResponse"
    THEN [message EXCEPT !.parts =
            [i \in DOMAIN message.parts |-> sanitize_part(message.parts[i])]]
    ELSE [message EXCEPT !.parts =
            [i \in DOMAIN message.parts |->
                clear_reasoning_content_in_part(message.parts[i])]]

\* _strip_reasoning_content: a new list, message by message
strip_reasoning_content(messages) ==
    [i \in DOMAIN messages |-> strip_message(messages[i])]

\* a user turn as _trim_history and _count_turns see it
IsUserTurn(message) == HasPart(message, "user-prompt")

\* _count_turns: the messages that hold a user-prompt part
count_turns(history) == Cardinality({i \in DOMAIN history : IsUserTurn(history[i])})

\* a loop that never moves the cut
ExtendCutNever(messages, cut) == cut

RECURSIVE ExtendCut(_, _)
\* the loop of _trim_history that moves the cut back over a response with a
\* tool call and over a request with the system prompt
ExtendCut(messages, cut) ==
    IF cut <= 1 THEN cut
    ELSE LET prev == messages[cut - 1] IN
         IF prev.kind = "ModelResponse" /\ HasPart(prev, "tool-call")
         THEN ExtendCut(messages, cut - 1)
         ELSE IF prev.kind = "ModelRequest" /\ HasPart(prev, "system-prompt")
         THEN ExtendCut(messages, cut - 1)
         ELSE cut

\* a scan that stops at the most recent user turn whatever max_turns is
TurnIndexLast(messages, max_turns) ==
    CHOOSE i \in DOMAIN messages :
        /\ messages[i].kind = "ModelRequest" /\ IsUserTurn(messages[i])
        /\ \A j \in (i + 1)..Len(messages) :
             ~(messages[j].kind = "ModelRequest" /\ IsUserTurn(messages[j]))

\* the index of the max_turns-th user turn counted from the end
TurnIndex(messages, max_turns) ==
    CHOOSE i \in DOMAIN messages :
        /\ messages[i].kind = "ModelRequest" /\ IsUserTurn(messages[i])
        /\ Cardinality({j \in i..Len(messages) :
                          messages[j].kind = "ModelRequest" /\ IsUserTurn(messages[j])})
             = max_turns

\* _trim_history
trim_history(messages, max_turns) ==
    IF max_turns <= 0 \/ messages = <<>> THEN <<>>
    ELSE IF Cardinality({j \in DOMAIN messages :
                           messages[j].kind = "ModelRequest" /\ IsUserTurn(messages[j])})
              < max_turns
    THEN messages
    ELSE SubSeq(messages, ExtendCut(messages, TurnIndex(messages, max_turns)),
                Len(messages))

\* a truncation that keeps every message
truncate_keeps_all(history, max_turns) == history

\* a threshold that is the setting itself
threshold_is_setting(turns_setting) == turns_setting

\* _get_compression_threshold: int(max_history_turns * 0.8)
get_compression_threshold(turns_setting) == (turns_setting * 8) \div 10

\* the threshold under the setting of the server model
compression_threshold == get_compression_threshold(max_history_turns)

\* _truncate_to_turns: the suffix that starts at the message holding the
\* max_turns-th user-prompt part from the end
truncate_to_turns(history, max_turns) ==
    IF max_turns <= 0 THEN <<>>
    ELSE IF count_turns(history) < max_turns THEN history
    ELSE SubSeq(history,
                CHOOSE i \in DOMAIN history :
                    /\ IsUserTurn(history[i])
                    /\ count_turns(SubSeq(history, i, Len(history))) = max_turns,
                Len(history))

Min(a, b) == IF a < b THEN a ELSE b

keyword_length == 50       \* text[:50] of _extract_keywords
summary_length == 100      \* max_length of _summarize_text
summary_entries == 10      \* summary_parts[:10]

\* _extract_keywords: the first 50 characters, with "..." when the text is
\* longer (the texts of the model have no white space at their ends)
extract_keywords(text) ==
    IF Len(text) > keyword_length
    THEN SubSeq(text, 1, keyword_length) \o "..."
    ELSE text

\* _summarize_text: the first 100 characters, with "..." when it is longer
summarize_text(text) ==
    IF Len(text) <= summary_length
    THEN text
    ELSE SubSeq(text, 1, summary_length) \o "..."

\* the entry _extract_summary appends for one part, "" when it appends
\* none; "user: " is written for the source's "用户问: ", "AI: " for "AI答: "
summary_entry(part) ==
    IF part.part_kind = "user-prompt" /\ extract_keywords(part.content) # ""
    THEN "user: " \o extract_keywords(part.content)
    ELSE IF part.part_kind = "text" /\ summarize_text(part.content) # ""
    THEN "AI: " \o summarize_text(part.content)
    ELSE ""

RECURSIVE entries_of_parts(_)
entries_of_parts(parts) ==
    IF parts = <<>> THEN <<>>
    ELSE (IF summary_entry(Head(parts)) = "" THEN <<>> ELSE <<summary_entry(Head(parts))>>)
         \o entries_of_parts(Tail(parts))

RECURSIVE summary_parts(_)
\* the entries of the older messages, in order
summary_parts(older_messages) ==
    IF older_messages = <<>> THEN <<>>
    ELSE entries_of_parts(Head(older_messages).parts) \o summary_parts(Tail(older_messages))

RECURSIVE join(_)
\* " | ".join(...)
join(entries) ==
    IF entries = <<>> THEN ""
    ELSE IF Len(entries) = 1 THEN entries[1]
    ELSE entries[1] \o " | " \o join(Tail(entries))

\* history[: len(history) - len(old_history)] of _extract_summary
older_messages(history, keep_turns) ==
    SubSeq(history, 1, Len(history) - Len(truncate_to_turns(history, keep_turns)))

\* _extract_summary: the first ten entries of the messages older than the
\* kept turns, joined; "" when nothing is older
extract_summary(history, keep_turns) ==
    IF Len(truncate_to_turns(history, keep_turns)) >= Len(history) THEN ""
    ELSE LET entries == summary_parts(older_messages(history, keep_turns))
         IN join(SubSeq(entries, 1, Min(Len(entries), summary_entries)))

\* TRUE when _extract_summary gives a summary that is not empty
has_summary(history, keep_turns) == extract_summary(history, keep_turns) # ""

\* _create_summary_message: a request whose user prompt is the summary after
\* the marker ("[summary] " is written for the source's "[历史摘要] ")
create_summary_message(summary) == ModelRequest(<<UserPromptPart("[summary] " \o summary)>>)

\* a compression that puts the summary message in front of the whole history
compress_keeps_all(history, turns_setting, force) ==
    [success |-> TRUE,
     history |-> <<create_summary_message(extract_summary(history, 0))>> \o history]

\* compress_history: whether it compressed and the history it leaves stored
compress_history(history, turns_setting, force) ==
    LET threshold == get_compression_threshold(turns_setting)
        truncated == truncate_to_turns(history, threshold)
        summary == extract_summary(history, threshold)
    IN IF history = <<>> THEN [success |-> FALSE, history |-> history]
       ELSE IF ~force /\ count_turns(history) <= threshold
       THEN [success |-> FALSE, history |-> history]
       ELSE [success |-> TRUE,
             history |-> IF summary # ""
                         THEN <<create_summary_message(summary)>> \o truncated
                         ELSE truncated]

\* check_and_compress: whether it compressed and the history it leaves stored
check_and_compress(history, turns_setting, force) ==
    IF history = <<>> THEN [success |-> FALSE, history |-> history]
    ELSE IF force THEN compress_history(history, turns_setting, TRUE)
    ELSE IF count_turns(history) >= get_compression_threshold(turns_setting)
    THEN compress_history(history, turns_setting, FALSE)
    ELSE [success |-> FALSE, history |-> history]

---------------------------------------------------------------------------
(* AgentWorker *)

\* _run: get_request returns the smallest item; _process_request gets the
\* connection's lock (get_connection_lock creates one when the id has none)
\* and either takes it at once or queues behind its holder
WorkerGet(w) ==
    /\ worker_pc[w] = "get"
    /\ \E item \in Smallest(request_queue) :
        LET c == item.connection_id
            fresh == connection_locks[c] = 0
            l == IF fresh THEN Len(locks) + 1 ELSE connection_locks[c]
            lock == IF fresh THEN NewLock ELSE locks[l]
            free == ~lock.locked /\ lock.waiters = <<>>
            taken == IF free THEN [lock EXCEPT !.locked = TRUE]
                     ELSE [lock EXCEPT !.waiters = Append(@, w)]
        IN /\ request_queue' = request_queue \ {item}
           /\ worker_item' = [worker_item EXCEPT ![w] = item]
           /\ get_request_returns' = [get_request_returns EXCEPT ![w] = @ + 1]
           /\ connection_locks' = [connection_locks EXCEPT ![c] = l]
           /\ locks' = IF fresh THEN Append(locks, taken)
                       ELSE [locks EXCEPT ![l] = taken]
           /\ worker_lock' = [worker_lock EXCEPT ![w] = l]
           /\ worker_pc' = [worker_pc EXCEPT ![w] = IF free THEN "locked" ELSE "wait_lock"]
           /\ enter_order' = IF free
                             THEN [enter_order EXCEPT ![c] = Append(@, item.sequence)]
                             ELSE enter_order
    /\ UNCHANGED <<sequence, queue_max_size, conversation_histories, response_queues, queue_items,
                   worker_future, worker_result, run, connVars, streamVars, stripVars, sideVars, request_done_calls, futureVars>>

\* asyncio.Lock.acquire resumes: release woke the first waiter
WorkerLockAcquired(w) ==
    LET l == worker_lock[w] IN
    /\ worker_pc[w] = "wait_lock"
    /\ ~locks[l].locked
    /\ Head(locks[l].waiters) = w
    /\ locks' = [locks EXCEPT ![l] = [locked |-> TRUE, waiters |-> Tail(@.waiters)]]
    /\ worker_pc' = [worker_pc EXCEPT ![w] = "locked"]
    /\ enter_order' = [enter_order EXCEPT
                         ![worker_item[w].connection_id] = Append(@, worker_item[w].sequence)]
    /\ UNCHANGED <<request_queue, sequence, queue_max_size, conversation_histories, response_queues,
                   queue_items, connection_locks, worker_item, worker_lock,
                   worker_future, worker_result, run, connVars, streamVars, stripVars, sideVars, taskVars, futureVars>>

\* a variant whose "async with" does not release the lock
continue_without_release(w) ==
    /\ locks' = locks
    /\ worker_pc' = [worker_pc EXCEPT ![w] = "get"]
    /\ worker_item' = [worker_item EXCEPT ![w] = NoItem]
    /\ worker_lock' = [worker_lock EXCEPT ![w] = 0]
    /\ worker_result' = [worker_result EXCEPT ![w] = NoResult]
    /\ run' = [run EXCEPT ![w] = NoRun]
    /\ request_done_calls' = [request_done_calls EXCEPT ![w] = @ + 1]
    /\ UNCHANGED get_request_returns

\* the end of "async with connection_lock", request_done and the next turn
\* of the loop of _run
release_and_continue(w) ==
    /\ locks' = [locks EXCEPT ![worker_lock[w]].locked = FALSE]
    /\ worker_pc' = [worker_pc EXCEPT ![w] = "get"]
    /\ worker_item' = [worker_item EXCEPT ![w] = NoItem]
    /\ worker_lock' = [worker_lock EXCEPT ![w] = 0]
    /\ worker_result' = [worker_result EXCEPT ![w] = NoResult]
    /\ run' = [run EXCEPT ![w] = NoRun]
    /\ request_done_calls' = [request_done_calls EXCEPT ![w] = @ + 1]
    /\ UNCHANGED get_request_returns

\* _process_request_locked returns: the lock is released, request_done is
\* called and the loop waits for the next request
WorkerFinish(w) ==
    /\ worker_pc[w] = "locked"
    /\ release_and_continue(w)
    /\ UNCHANGED <<request_queue, sequence, queue_max_size, conversation_histories, response_queues,
                   queue_items, connection_locks, worker_future, connVars, streamVars, stripVars, sideVars,
                   futureVars, enter_order>>

\* the run_command callback, up to its await: a new future is sent to the
\* connection's response queue
WorkerRunCommand(w) ==
    LET c == worker_item[w].connection_id IN
    /\ worker_pc[w] = "locked"
    /\ \E f \in FutureIds :
        /\ futures[f].state = "unborn"
        /\ \A g \in FutureIds : g < f => futures[g].state # "unborn"
        /\ futures' = [futures EXCEPT ![f] = [NoFuture EXCEPT !.state = "pending",
                                                             !.conn = c,
                                                             !.queued = c \in response_queues]]
        /\ \E sent \in BOOLEAN :
            /\ send_response(c, RunCommandItem(f), sent)
            /\ IF sent
               THEN /\ worker_pc' = [worker_pc EXCEPT ![w] = "await_future"]
                    /\ worker_future' = [worker_future EXCEPT ![w] = f]
                    /\ UNCHANGED worker_result
               ELSE /\ worker_result' = [worker_result EXCEPT ![w] = UnknownConnectionResult]
                    /\ UNCHANGED <<worker_pc, worker_future>>
    /\ UNCHANGED <<request_queue, sequence, queue_max_size, conversation_histories, response_queues,
                   connection_locks, locks, worker_item, worker_lock, run, connVars, streamVars, stripVars, sideVars, taskVars,
                   callbacks, enter_order>>

\* wait_for(future, 10) returns the future's result
WorkerFutureResult(w) ==
    LET f == worker_future[w] IN
    /\ worker_pc[w] = "await_future"
    /\ futures[f].state = "result"
    /\ worker_result' = [worker_result EXCEPT ![w] = futures[f].result]
    /\ worker_pc' = [worker_pc EXCEPT ![w] = "locked"]
    /\ worker_future' = [worker_future EXCEPT ![w] = 0]
    /\ UNCHANGED <<brokerVars, worker_item, worker_lock, run, connVars, streamVars, stripVars, sideVars, taskVars, futureVars,
                   enter_order>>

\* wait_for(future, 10) times out: it cancels the future, and run_command
\* returns the timeout text
WorkerFutureTimeout(w) ==
    LET f == worker_future[w] IN
    /\ worker_pc[w] = "await_future"
    /\ futures[f].state = "pending"
    /\ futures' = [futures EXCEPT ![f].state = "cancelled", ![f].resolutions = @ + 1]
    /\ callbacks' = IF futures[f].callback THEN callbacks \cup {f} ELSE callbacks
    /\ worker_result' = [worker_result EXCEPT ![w] = TimeoutResult]
    /\ worker_pc' = [worker_pc EXCEPT ![w] = "locked"]
    /\ worker_future' = [worker_future EXCEPT ![w] = 0]
    /\ UNCHANGED <<brokerVars, worker_item, worker_lock, run, connVars, streamVars, stripVars, sideVars, taskVars, enter_order>>

---------------------------------------------------------------------------
(* AgentWorker: the chat run of _process_request_locked *)

\* content chunks a run sends before it ends
MaxChunks == 1

\* a StreamChunk put in a response queue while the request of item is
\* processed: connection_id and delivery are the request's; request (no
\* field of the source) traces the chunk to the request it was made for
StreamChunk(item, chunk_type, content, seq) ==
    [type |-> "chunk", chunk_type |-> chunk_type, content |-> content,
     sequence |-> seq, future |-> 0, connection_id |-> item.connection_id,
     delivery |-> item.payload.delivery, request |-> item.sequence]

\* the chunk of an error event of stream_chat, and the one _send_error_chunk
\* builds for an exception ("错误: " and the detail): it names no delivery,
\* so that chunk has the default of the field
ErrorEventChunk(item, seq) == StreamChunk(item, "error", "stream error", seq)
ExceptionChunk(item, seq) ==
    [StreamChunk(item, "error", "error: exception", seq) EXCEPT !.delivery = "tellraw"]

\* the messages an agent run adds after the user's request: a text answer, an
\* answer with a thinking part, and a tool call whose arguments hold a
\* reasoning_content key, followed by the tool's return and the answer
AgentRuns ==
    {<<ModelResponse(<<TextPart("x")>>)>>,
     <<ModelResponse(<<ThinkingPart("t"), TextPart("x")>>)>>,
     <<ModelResponse(<<Part("tool-call", "", None, "r")>>),
       ModelRequest(<<Part("tool-return", "ok", None, None)>>),
       ModelResponse(<<TextPart("x")>>)>>}

\* the request message of the chat content "hi"
UserRequest == ModelRequest(<<UserPromptPart("hi")>>)

\* Settings.default_provider
default_provider == "deepseek"

\* request.provider or self.settings.default_provider
provider_name(request) ==
    IF request.provider # None THEN request.provider ELSE default_provider

\* the history is loaded and stripped when the request uses the context, the
\* model of the request's provider is obtained, and stream_chat is started
\* with that history
WorkerStartRun(w) ==
    LET c == worker_item[w].connection_id IN
    /\ worker_pc[w] = "locked"
    /\ run[w].phase = "none"
    /\ run' = [run EXCEPT ![w] =
                 [phase |-> "stream",
                  message_history |->
                      IF worker_item[w].payload.use_context
                      THEN strip_reasoning_content(get_conversation_history(c))
                      ELSE <<>>,
                  sequence |-> 0,
                  event_count |-> 0,
                  provider |-> provider_name(worker_item[w].payload)]]
    /\ UNCHANGED <<brokerVars, worker_pc, worker_item, worker_lock, worker_future,
                   worker_result, connVars, streamVars, stripVars, sideVars, taskVars, futureVars, enter_order>>

\* ProviderRegistry.get_model raises: one error chunk with sequence 0, and
\* the request is over
WorkerProviderError(w) ==
    LET c == worker_item[w].connection_id IN
    /\ worker_pc[w] = "locked"
    /\ run[w].phase = "none"
    /\ \E sent \in BOOLEAN : send_response(c, ExceptionChunk(worker_item[w], 0), sent)
    /\ release_and_continue(w)
    /\ UNCHANGED <<request_queue, sequence, queue_max_size, response_queues,
                   connection_locks, conversation_histories, worker_future,
                   connVars, streamVars, stripVars, sideVars, futureVars, enter_order>>

\* a content event with text: forwarded as a chunk
WorkerContentEvent(w) ==
    LET c == worker_item[w].connection_id IN
    /\ worker_pc[w] = "locked"
    /\ run[w].phase = "stream"
    /\ run[w].sequence < MaxChunks
    /\ \E sent \in BOOLEAN :
         send_response(c, StreamChunk(worker_item[w], "content", "x", run[w].sequence), sent)
    /\ run' = [run EXCEPT ![w].sequence = @ + 1, ![w].event_count = @ + 1]
    /\ UNCHANGED <<request_queue, sequence, queue_max_size, response_queues,
                   connection_locks, locks, conversation_histories, worker_pc,
                   worker_item, worker_lock, worker_future, worker_result,
                   connVars, streamVars, stripVars, sideVars, taskVars, futureVars, enter_order>>

\* self.settings.max_history_turns as the worker reads it: the setting the
\* server was started with when one was chosen, and max_history_turns else
history_turns_setting == IF cm_setting = 0 THEN max_history_turns ELSE cm_setting

\* the history the completion branch stores for all_messages
completed_history(all_messages) ==
    check_and_compress(
        strip_reasoning_content(trim_history(all_messages, history_turns_setting)),
        history_turns_setting, FALSE).history

\* the completion event: when the request uses the context and the
\* connection still has a response queue, the trimmed and stripped messages
\* become the history and check_and_compress runs; the generator ends and
\* the request is over
WorkerCompletes(w, new_messages) ==
    LET c == worker_item[w].connection_id
        all_messages == run[w].message_history \o <<UserRequest>> \o new_messages
    IN /\ worker_pc[w] = "locked"
       /\ run[w].phase = "stream"
       /\ IF worker_item[w].payload.use_context /\ c \in response_queues
          THEN set_conversation_history(c, completed_history(all_messages))
          ELSE UNCHANGED conversation_histories
       /\ release_and_continue(w)
       /\ UNCHANGED <<request_queue, sequence, queue_max_size, response_queues,
                      queue_items, connection_locks, worker_future, connVars, streamVars,
                      stripVars, sideVars, futureVars, enter_order>>

\* the completion event of a run, whatever the model answered
WorkerCompletionEvent(w) == \E new_messages \in AgentRuns : WorkerCompletes(w, new_messages)

\* the completion event of a run the model answered with plain text
WorkerTextCompletion(w) == WorkerCompletes(w, <<ModelResponse(<<TextPart("x")>>)>>)

\* an error branch that stores the messages of the abandoned turn
WorkerErrorEventStoring(w) ==
    LET c == worker_item[w].connection_id IN
    /\ worker_pc[w] = "locked"
    /\ run[w].phase = "stream"
    /\ \E sent \in BOOLEAN : send_response(c, ErrorEventChunk(worker_item[w], run[w].sequence), sent)
    /\ set_conversation_history(c, run[w].message_history \o <<UserRequest>>)
    /\ release_and_continue(w)
    /\ UNCHANGED <<request_queue, sequence, queue_max_size, response_queues,
                   connection_locks, worker_future, connVars, streamVars, stripVars, sideVars, futureVars,
                   enter_order>>

\* the error event that ends a run of stream_chat: forwarded as an error
\* chunk; the generator ends and the request is over
WorkerErrorEvent(w) ==
    LET c == worker_item[w].connection_id IN
    /\ worker_pc[w] = "locked"
    /\ run[w].phase = "stream"
    /\ \E sent \in BOOLEAN : send_response(c, ErrorEventChunk(worker_item[w], run[w].sequence), sent)
    /\ release_and_continue(w)
    /\ UNCHANGED <<request_queue, sequence, queue_max_size, response_queues,
                   connection_locks, conversation_histories, worker_future,
                   connVars, streamVars, stripVars, sideVars, futureVars, enter_order>>

\* an exception in the stream loop before the run has ended: the except
\* clause sends one error chunk through _send_error_chunk
WorkerException(w) ==
    LET c == worker_item[w].connection_id IN
    /\ worker_pc[w] = "locked"
    /\ run[w].phase = "stream"
    /\ \E sent \in BOOLEAN : send_response(c, ExceptionChunk(worker_item[w], run[w].sequence), sent)
    /\ release_and_continue(w)
    /\ UNCHANGED <<request_queue, sequence, queue_max_size, response_queues,
                   connection_locks, conversation_histories, worker_future,
                   connVars, streamVars, stripVars, sideVars, futureVars, enter_order>>

\* the end of "async with connection_lock" when an exception or a
\* cancellation leaves _process_request: the lock is released, and the
\* handlers of _run go on (pc "get") or leave the loop (pc "stopped") without
\* reaching request_done
release_without_done(w, pc) ==
    /\ locks' = [locks EXCEPT ![worker_lock[w]].locked = FALSE]
    /\ worker_pc' = [worker_pc EXCEPT ![w] = pc]
    /\ worker_item' = [worker_item EXCEPT ![w] = NoItem]
    /\ worker_lock' = [worker_lock EXCEPT ![w] = 0]
    /\ worker_result' = [worker_result EXCEPT ![w] = NoResult]
    /\ run' = [run EXCEPT ![w] = NoRun]
    /\ UNCHANGED taskVars

\* an exception raised in _process_request_locked outside its try clauses
\* (get_agent's lazy initialisation, after the model was obtained): it
\* passes "async with" and reaches "except Exception" of _run, which logs it
\* and goes on with the loop
WorkerEscapingException(w) ==
    /\ worker_pc[w] = "locked"
    /\ run[w].phase = "none"
    /\ release_without_done(w, "get")
    /\ UNCHANGED <<request_queue, sequence, queue_max_size, response_queues,
                   queue_items, connection_locks, conversation_histories, worker_future,
                   connVars, streamVars, stripVars, sideVars, futureVars, enter_order>>

\* stop(): _running = False and the task is cancelled at the await it is in.
\* Waiting for a request, wait_for ends; waiting for the lock, acquire
\* removes the waiter; inside "async with" the lock is released (and
\* wait_for cancels a pending command future); "except CancelledError" of
\* _run leaves the loop
WorkerStop(w) ==
    LET pc == worker_pc[w]
        l == worker_lock[w]
        f == worker_future[w]
    IN /\ pc # "stopped"
       /\ pc = "await_future" => futures[f].state = "pending"
       /\ IF pc \in {"locked", "await_future"}
          THEN release_without_done(w, "stopped")
          ELSE /\ locks' = IF pc = "wait_lock"
                           THEN [locks EXCEPT ![l].waiters = SelectSeq(@, LAMBDA x : x # w)]
                           ELSE locks
               /\ worker_pc' = [worker_pc EXCEPT ![w] = "stopped"]
               /\ worker_item' = [worker_item EXCEPT ![w] = NoItem]
               /\ worker_lock' = [worker_lock EXCEPT ![w] = 0]
               /\ UNCHANGED <<worker_result, run, taskVars>>
       /\ IF pc = "await_future"
          THEN /\ futures' = [futures EXCEPT ![f].state = "cancelled",
                                             ![f].resolutions = @ + 1]
               /\ callbacks' = IF futures[f].callback THEN callbacks \cup {f} ELSE callbacks
               /\ worker_future' = [worker_future EXCEPT ![w] = 0]
          ELSE UNCHANGED <<futureVars, worker_future>>
       /\ UNCHANGED <<request_queue, sequence, queue_max_size, response_queues,
                      queue_items, connection_locks, conversation_histories,
                      connVars, streamVars, stripVars, sideVars, enter_order>>

---------------------------------------------------------------------------
(* ConnectionManager *)

\* register, called by handle_connection when a socket is accepted: the
\* connection gets a fresh id, a response queue and a sender task
Register(c) ==
    /\ conn_pc[c] = "new"
    /\ shutdown_pc # "done"
    /\ register_connection(c)
    /\ connections' = Append(connections, c)
    /\ sender_tasks' = Append(sender_tasks, c)
    /\ sender' = [sender EXCEPT ![c] = [pc |-> "get", response |-> NoResponse, cancel |-> FALSE]]
    /\ conn_pc' = [conn_pc EXCEPT ![c] = "open"]
    /\ state' = [state EXCEPT ![c] = [ConnectionState EXCEPT !.authenticated = dev_mode]]
    /\ UNCHANGED <<request_queue, sequence, queue_max_size, conversation_histories,
                   workerVars, pending_command_futures, shutdown_pc, shutdown_list,
                   ws_sent, dev_mode, streamVars, stripVars, sideVars, sender_sent, tokens, futureVars, enter_order>>

\* the futures _fail_pending_command_futures completes
fail_pending_command_futures(c) == pending_command_futures[c]

\* the futures _fail_queued_command_futures completes
fail_queued_command_futures(c) == ItemFutures(queue_items[c])

\* the two calls unregister makes before it cancels the sender task
FailBeforeCancel(c) == fail_pending_command_futures(c) \cup fail_queued_command_futures(c)

\* the two calls unregister makes after the sender task has ended
FailAfterCancel(c) == fail_pending_command_futures(c) \cup fail_queued_command_futures(c)

\* unregister up to "await task". The socket was closed or the handler
\* failed; nothing is done for an id that is not in _connections. A sender
\* task that has already ended is awaited without suspending.
Unregister(c) ==
    /\ conn_pc[c] \in {"open", "socket_closed"}
    /\ IF ~InSeq(connections, c)
       THEN /\ conn_pc' = [conn_pc EXCEPT ![c] = "closed"]
            /\ UNCHANGED <<brokerVars, connections, sender_tasks, sender,
                           pending_command_futures, futureVars>>
       ELSE /\ connections' = Remove(connections, c)
            /\ sender_tasks' = Remove(sender_tasks, c)
            /\ SetResultUnlessDone(IF sender[c].pc # "done" THEN FailBeforeCancel(c)
                                   ELSE FailBeforeCancel(c) \cup FailAfterCancel(c),
                                   ClosedResult)
            /\ pending_command_futures' = [pending_command_futures EXCEPT ![c] = {}]
            /\ IF sender[c].pc # "done"
               THEN /\ sender' = [sender EXCEPT ![c].cancel = TRUE]
                    /\ conn_pc' = [conn_pc EXCEPT ![c] = "unregistering"]
                    /\ queue_items' = [queue_items EXCEPT ![c] = <<>>]
                    /\ UNCHANGED <<response_queues, connection_locks,
                                   conversation_histories>>
               ELSE /\ unregister_connection(c)
                    /\ conn_pc' = [conn_pc EXCEPT ![c] = "closed"]
                    /\ UNCHANGED sender
            /\ UNCHANGED <<request_queue, sequence, queue_max_size, locks>>
    /\ UNCHANGED <<workerVars, shutdown_pc, shutdown_list, ws_sent, authVars, streamVars, stripVars, sideVars, sender_sent,
                   enter_order>>

\* unregister from "await task" on: the sender task has ended
UnregisterAfterCancel(c) ==
    /\ conn_pc[c] = "unregistering"
    /\ sender[c].pc = "done"
    /\ SetResultUnlessDone(FailAfterCancel(c), ClosedResult)
    /\ pending_command_futures' = [pending_command_futures EXCEPT ![c] = {}]
    /\ unregister_connection(c)
    /\ conn_pc' = [conn_pc EXCEPT ![c] = "closed"]
    /\ UNCHANGED <<request_queue, sequence, queue_max_size, locks, workerVars,
                   connections, sender_tasks, sender, shutdown_pc, shutdown_list,
                   ws_sent, authVars, streamVars, stripVars, sideVars, sender_sent, enter_order>>

\* _run_command that adds no done callback to the future
run_command_registers_only(c, f) ==
    /\ pending_command_futures' = [pending_command_futures EXCEPT ![c] = @ \cup {f}]
    /\ UNCHANGED <<futures, callbacks>>

\* _run_command up to "await state.websocket.send": the future is recorded in
\* the pending map and gets its cancellation callback, which the loop
\* schedules at once when the future is already done
run_command_registers(c, f) ==
    /\ pending_command_futures' = [pending_command_futures EXCEPT ![c] = @ \cup {f}]
    /\ futures' = [futures EXCEPT ![f].callback = TRUE]
    /\ callbacks' = IF Done(f) THEN callbacks \cup {f} ELSE callbacks

\* a sender that takes the newest item of the queue
SenderGetLast(c) ==
    /\ sender[c].pc = "get"
    /\ ~sender[c].cancel
    /\ queue_items[c] # <<>>
    /\ LET item == queue_items[c][Len(queue_items[c])] IN
        /\ queue_items' = [queue_items EXCEPT ![c] = SubSeq(@, 1, Len(@) - 1)]
        /\ sender' = [sender EXCEPT ![c].pc = "send", ![c].response = item]
        /\ IF item.type = "run_command"
           THEN run_command_registers(c, item.future)
           ELSE UNCHANGED <<pending_command_futures, futures, callbacks>>
    /\ UNCHANGED <<request_queue, sequence, queue_max_size, conversation_histories, response_queues,
                   connection_locks, locks, workerVars, conn_pc, connections,
                   sender_tasks, shutdown_pc, shutdown_list, ws_sent, authVars, streamVars, stripVars, sideVars, sender_sent,
                   enter_order>>

\* _response_sender: wait_for(queue.get()) returns an item and
\* _handle_response dispatches it, up to the socket send
SenderGet(c) ==
    /\ sender[c].pc = "get"
    /\ ~sender[c].cancel
    /\ queue_items[c] # <<>>
    /\ LET item == Head(queue_items[c]) IN
        /\ queue_items' = [queue_items EXCEPT ![c] = Tail(@)]
        /\ sender' = [sender EXCEPT ![c].pc = "send", ![c].response = item]
        /\ IF item.type = "run_command"
           THEN run_command_registers(c, item.future)
           ELSE UNCHANGED <<pending_command_futures, futures, callbacks>>
    /\ UNCHANGED <<request_queue, sequence, queue_max_size, conversation_histories, response_queues,
                   connection_locks, locks, workerVars, conn_pc, connections,
                   sender_tasks, shutdown_pc, shutdown_list, ws_sent, authVars, streamVars, stripVars, sideVars, sender_sent,
                   enter_order>>

\* websocket.send returns
SenderSent(c) ==
    /\ sender[c].pc = "send"
    /\ ~sender[c].cancel
    /\ sender' = [sender EXCEPT ![c].pc = "get", ![c].response = NoResponse]
    /\ sender_sent' = IF sender[c].response.type = "chunk"
                      THEN [sender_sent EXCEPT ![c] = Append(@, sender[c].response)]
                      ELSE sender_sent
    /\ UNCHANGED <<brokerVars, workerVars, conn_pc, connections, sender_tasks,
                   pending_command_futures, shutdown_pc, shutdown_list, ws_sent,
                   authVars, streamVars, stripVars, sideVars, futureVars, enter_order>>

\* websocket.send raises: _run_command takes a future that is not done out
\* of the pending map and completes it with the error text
SenderSendFailed(c) ==
    LET f == sender[c].response.future IN
    /\ sender[c].pc = "send"
    /\ ~sender[c].cancel
    /\ sender[c].response.type = "run_command"
    /\ pending_command_futures' =
         IF Done(f) THEN pending_command_futures
         ELSE [pending_command_futures EXCEPT ![c] = @ \ {f}]
    /\ SetResultUnlessDone({f}, SendFailedResult)
    /\ sender' = [sender EXCEPT ![c].pc = "get", ![c].response = NoResponse]
    /\ UNCHANGED <<brokerVars, workerVars, conn_pc, connections, sender_tasks,
                   shutdown_pc, shutdown_list, ws_sent, authVars, streamVars, stripVars, sideVars, sender_sent, enter_order>>

\* the futures the CancelledError handler of _response_sender completes:
\* the one of the response it holds
resolve_run_command_future(response) ==
    IF response.type = "run_command" THEN {response.future} ELSE {}

\* the cancelled sender task resumes: CancelledError is raised where it waits
SenderCancelled(c) ==
    /\ sender[c].pc \in {"get", "send"}
    /\ sender[c].cancel
    /\ SetResultUnlessDone(resolve_run_command_future(sender[c].response), ClosedResult)
    /\ sender' = [sender EXCEPT ![c] = [pc |-> "done", response |-> NoResponse, cancel |-> FALSE]]
    /\ UNCHANGED <<brokerVars, workerVars, conn_pc, connections, sender_tasks,
                   pending_command_futures, shutdown_pc, shutdown_list, ws_sent,
                   authVars, streamVars, stripVars, sideVars, sender_sent, enter_order>>

\* the event loop runs a scheduled _cleanup_cancelled_future(future)
RunCallback(f) ==
    /\ f \in callbacks
    /\ callbacks' = callbacks \ {f}
    /\ pending_command_futures' =
         IF futures[f].state = "cancelled"
         THEN [pending_command_futures EXCEPT ![futures[f].conn] = @ \ {f}]
         ELSE pending_command_futures
    /\ UNCHANGED <<brokerVars, workerVars, conn_pc, connections, sender_tasks,
                   sender, shutdown_pc, shutdown_list, ws_sent, authVars, streamVars, stripVars, sideVars, sender_sent, futures,
                   enter_order>>

---------------------------------------------------------------------------
(* WebSocketServer *)

\* Settings.dedup_external_messages (default)
dedup_external_messages == TRUE

\* frames the game sends: the answers to commands, and player messages
\* carrying the chat command with or without content
ResponseFrames ==
    [messagePurpose : {"commandResponse"}, eventName : {None},
     sender : {None}, requestId : 0..MaxFutures,
     statusCode : {0, 1}, statusMessage : {"", "Gave 1 Diamond"},
     command : {None}, content : {""}]
    \cup
    [messagePurpose : {"commandResponse"}, eventName : {"PlayerMessage"},
     sender : {"external"}, requestId : FutureIds,
     statusCode : {0}, statusMessage : {""},
     command : {None}, content : {""}]

PlayerFrames ==
    [messagePurpose : {"event"}, eventName : {"PlayerMessage"},
     sender : {"Steve", "external"}, requestId : {0},
     statusCode : {0}, statusMessage : {""},
     command : {"chat"}, content : {"", "hi"}]

\* "请输入聊天内容"
EmptyChatError == [color |-> "red", text |-> "enter chat content"]

is_external_duplicate_message(frame) ==
    /\ dedup_external_messages
    /\ frame.eventName = "PlayerMessage"
    /\ frame.sender = "external"

\* the failure text with the colon also before an empty message
CommandResultWithColon(statusCode, statusMessage) ==
    IF statusCode = 0
    THEN IF statusMessage # "" THEN <<statusMessage>> ELSE SuccessResult
    ELSE <<"command failed(statusCode=", ToString(statusCode), "): ", statusMessage>>

\* the text _handle_command_response completes the future with
CommandResult(statusCode, statusMessage) ==
    IF statusCode = 0
    THEN IF statusMessage # "" THEN <<statusMessage>> ELSE SuccessResult
    ELSE IF statusMessage # ""
         THEN <<"command failed(statusCode=", ToString(statusCode), "): ", statusMessage>>
         ELSE <<"command failed(statusCode=", ToString(statusCode), ")">>

\* a variant that looks the request id up in the pending futures of every
\* connection, not only in those of the connection the frame came from
handle_command_response_any(c, frame) ==
    LET f == frame.requestId IN
    IF f = 0 \/ \A d \in DOMAIN pending_command_futures : f \notin pending_command_futures[d]
    THEN UNCHANGED <<pending_command_futures, futureVars>>
    ELSE /\ pending_command_futures' = [d \in DOMAIN pending_command_futures |->
                                           pending_command_futures[d] \ {f}]
         /\ SetResultUnlessDone({f}, CommandResult(frame.statusCode, frame.statusMessage))

\* _handle_command_response for a commandResponse frame: the pending entry
\* of the frame's requestId is popped and its future completed
handle_command_response(c, frame) ==
    LET f == frame.requestId IN
    IF f = 0 \/ f \notin pending_command_futures[c]
    THEN UNCHANGED <<pending_command_futures, futureVars>>
    ELSE /\ pending_command_futures' = [pending_command_futures EXCEPT ![c] = @ \ {f}]
         /\ SetResultUnlessDone({f}, CommandResult(frame.statusCode, frame.statusMessage))

\* frames carrying the other commands; the content is what parse_command
\* leaves after the command prefix. Contents stand for:
\*   context:  "on" = "启用", "off" = "关闭", "clear" = "清除"
\*   setting:  "var x 1" = "变量 x 1"
CommandContents ==
    [login |-> {"123456", "wrong"}, chat |-> {"", "hi"},
     context |-> {"on", "off", "clear", "bogus"},
     switch_model |-> {"OpenAI", "nope"}, template |-> {"concise", "nope"},
     setting |-> {"var x 1", ""}, help |-> {""}]

CommandFrames ==
    UNION {[messagePurpose : {"event"}, eventName : {"PlayerMessage"},
            sender : {"Steve"}, requestId : {0},
            statusCode : {0}, statusMessage : {""},
            command : {cmd}, content : CommandContents[cmd]]
           : cmd \in DOMAIN CommandContents}

\* Settings.default_password
default_password == "123456"
\* Settings.list_available_providers()
AvailableProviders == {"deepseek", "openai"}
\* PromptManager._templates
Templates == {"default", "concise"}

\* "请先登录"
LoginFirstError == [color |-> "red", text |-> "log in first"]
\* "开发模式: 无需登录，已自动认证"
DevLoginInfo == [color |-> "info", text |-> "dev mode: no login needed"]
\* "您已登录"
AlreadyLoggedIn == [color |-> "info", text |-> "already logged in"]
\* "登录成功！"
LoginOk == [color |-> "green", text |-> "logged in"]
\* "密码错误"
WrongPassword == [color |-> "red", text |-> "wrong password"]
\* the answers of handle_context, handle_switch_model, handle_template,
\* handle_setting and handle_help
Success(text) == [color |-> "green", text |-> text]
Error(text) == [color |-> "red", text |-> text]
Info(text) == [color |-> "info", text |-> text]

\* a check that lets every connection through
check_auth_open(c) == TRUE

\* check_auth: the id has a stored token and verify_token accepts it
check_auth(c) == tokens[c] = "valid"

\* the ConnectionState of c once handle_message has recorded the sender as
\* the player name
WithPlayerName(c, frame) ==
    IF frame.sender # None /\ state[c].player_name = None
    THEN [state[c] EXCEPT !.player_name = frame.sender]
    ELSE state[c]

\* handle_login
handle_login(c, st, password) ==
    IF dev_mode
    THEN /\ ws_sent' = [ws_sent EXCEPT ![c] = Append(@, DevLoginInfo)]
         /\ state' = [state EXCEPT ![c] = st]
         /\ UNCHANGED tokens
    ELSE IF password = default_password
    THEN IF tokens[c] = "valid"
         THEN /\ ws_sent' = [ws_sent EXCEPT ![c] = Append(@, AlreadyLoggedIn)]
              /\ state' = [state EXCEPT ![c] = st]
              /\ UNCHANGED tokens
         ELSE /\ tokens' = [tokens EXCEPT ![c] = "valid"]
              /\ state' = [state EXCEPT ![c] = [st EXCEPT !.authenticated = TRUE]]
              /\ ws_sent' = [ws_sent EXCEPT ![c] = Append(@, LoginOk)]
    ELSE /\ ws_sent' = [ws_sent EXCEPT ![c] = Append(@, WrongPassword)]
         /\ state' = [state EXCEPT ![c] = st]
         /\ UNCHANGED tokens

\* handle_context: "启用", "关闭" and "清除"; any other option here is answered
\* with the usage error
handle_context(c, st, option) ==
    IF option = "on"
    THEN /\ state' = [state EXCEPT ![c] = [st EXCEPT !.context_enabled = TRUE]]
         /\ ws_sent' = [ws_sent EXCEPT ![c] = Append(@, Success("context on"))]
         /\ UNCHANGED conversation_histories
    ELSE IF option = "off"
    THEN /\ state' = [state EXCEPT ![c] = [st EXCEPT !.context_enabled = FALSE]]
         /\ clear_conversation_history(c)
         /\ ws_sent' = [ws_sent EXCEPT ![c] = Append(@, Success("context off"))]
    ELSE IF option = "clear"
    THEN /\ state' = [state EXCEPT ![c] = st]
         /\ clear_conversation_history(c)
         /\ ws_sent' = [ws_sent EXCEPT ![c] = Append(@, Success("history cleared"))]
    ELSE /\ state' = [state EXCEPT ![c] = st]
         /\ ws_sent' = [ws_sent EXCEPT ![c] = Append(@, Error("invalid option"))]
         /\ UNCHANGED conversation_histories

UpperCase == "ABCDEFGHIJKLMNOPQRSTUVWXYZ"
LowerCase == "abcdefghijklmnopqrstuvwxyz"

\* str.lower on one character: the upper-case letters and their lower case
lower_char ==
    [ch \in {SubSeq(UpperCase, i, i) : i \in 1..Len(UpperCase)} |->
        LET i == CHOOSE i \in 1..Len(UpperCase) : SubSeq(UpperCase, i, i) = ch
        IN SubSeq(LowerCase, i, i)]

RECURSIVE lower(_)
\* str.lower
lower(s) ==
    IF s = "" THEN ""
    ELSE LET ch == SubSeq(s, 1, 1)
         IN (IF ch \in DOMAIN lower_char THEN lower_char[ch] ELSE ch)
            \o lower(SubSeq(s, 2, Len(s)))

\* handle_switch_model: the name is compared in lower case
handle_switch_model(c, st, provider) ==
    IF lower(provider) \in AvailableProviders
    THEN /\ state' = [state EXCEPT ![c] = [st EXCEPT !.current_provider = lower(provider)]]
         /\ clear_conversation_history(c)
         /\ ws_sent' = [ws_sent EXCEPT ![c] = Append(@, Success("switched"))]
    ELSE /\ state' = [state EXCEPT ![c] = st]
         /\ ws_sent' = [ws_sent EXCEPT ![c] = Append(@, Error("no such provider"))]
         /\ UNCHANGED conversation_histories

\* handle_template with a template name as content
handle_template(c, st, content) ==
    IF content \in Templates
    THEN /\ state' = [state EXCEPT ![c] = [st EXCEPT !.current_template = content]]
         /\ ws_sent' = [ws_sent EXCEPT ![c] = Append(@, Success("template switched"))]
    ELSE /\ state' = [state EXCEPT ![c] = st]
         /\ ws_sent' = [ws_sent EXCEPT ![c] = Append(@, Error("no such template"))]

\* handle_setting: "变量 x 1" sets the variable custom_x; without content the
\* answer is "请输入设置项"
handle_setting(c, st, content) ==
    IF content = ""
    THEN /\ state' = [state EXCEPT ![c] = st]
         /\ ws_sent' = [ws_sent EXCEPT ![c] = Append(@, Error("enter a setting"))]
    ELSE /\ state' = [state EXCEPT ![c] =
                        [st EXCEPT !.custom_variables = @ \cup {"custom_x"}]]
         /\ ws_sent' = [ws_sent EXCEPT ![c] = Append(@, Success("variable set"))]

\* handle_help
handle_help(c, st) ==
    /\ state' = [state EXCEPT ![c] = st]
    /\ ws_sent' = [ws_sent EXCEPT ![c] = Append(@, Info("help"))]

\* a request that never names a provider
create_chat_request_default(st, delivery) ==
    [ChatRequest(st.context_enabled) EXCEPT !.delivery = delivery]

\* create_chat_request: use_context is the connection's context flag and
\* provider the connection's current_provider (handle_chat passes none);
\* delivery is the one handle_chat was called with
create_chat_request(st, delivery) ==
    [use_context |-> st.context_enabled, provider |-> st.current_provider,
     delivery |-> delivery]

\* handle_chat that swallows QueueFull without a reply
handle_chat_silent(c, st, content, delivery) ==
    IF content = ""
    THEN /\ ws_sent' = [ws_sent EXCEPT ![c] = Append(@, EmptyChatError)]
         /\ UNCHANGED <<request_queue, sequence>>
    ELSE \E raised \in BOOLEAN :
            /\ submit_request(c, create_chat_request(st, delivery), 0, raised)
            /\ UNCHANGED ws_sent

\* handle_chat: the request is submitted with priority 0; QueueFull is
\* answered with the busy error
handle_chat(c, st, content, delivery) ==
    IF content = ""
    THEN /\ ws_sent' = [ws_sent EXCEPT ![c] = Append(@, EmptyChatError)]
         /\ UNCHANGED <<request_queue, sequence>>
    ELSE \E raised \in BOOLEAN :
            /\ submit_request(c, create_chat_request(st, delivery), 0, raised)
            /\ ws_sent' = IF raised THEN [ws_sent EXCEPT ![c] = Append(@, BusyError)]
                          ELSE ws_sent

\* handle_command: login needs no authentication; every other command is
\* refused with "请先登录" unless the server is in dev mode or check_auth
\* passes, which also marks the connection authenticated
handle_command(c, st, cmd_type, content) ==
    IF cmd_type = "login"
    THEN /\ handle_login(c, st, content)
         /\ UNCHANGED <<request_queue, sequence, conversation_histories>>
    ELSE IF ~dev_mode /\ ~check_auth(c)
    THEN /\ ws_sent' = [ws_sent EXCEPT ![c] = Append(@, LoginFirstError)]
         /\ state' = [state EXCEPT ![c] = st]
         /\ UNCHANGED <<request_queue, sequence, conversation_histories, tokens>>
    ELSE LET authed == IF dev_mode THEN st ELSE [st EXCEPT !.authenticated = TRUE] IN
         /\ UNCHANGED tokens
         /\ IF cmd_type = "chat"
            THEN /\ handle_chat(c, authed, content, "tellraw")
                 /\ state' = [state EXCEPT ![c] = authed]
                 /\ UNCHANGED conversation_histories
            ELSE IF cmd_type = "chat_script"
            THEN /\ handle_chat(c, authed, content, "scriptevent")
                 /\ state' = [state EXCEPT ![c] = authed]
                 /\ UNCHANGED conversation_histories
            ELSE IF cmd_type = "context"
            THEN /\ handle_context(c, authed, content)
                 /\ UNCHANGED <<request_queue, sequence>>
            ELSE IF cmd_type = "switch_model"
            THEN /\ handle_switch_model(c, authed, content)
                 /\ UNCHANGED <<request_queue, sequence>>
            ELSE IF cmd_type = "template"
            THEN /\ handle_template(c, authed, content)
                 /\ UNCHANGED <<request_queue, sequence, conversation_histories>>
            ELSE IF cmd_type = "setting"
            THEN /\ handle_setting(c, authed, content)
                 /\ UNCHANGED <<request_queue, sequence, conversation_histories>>
            ELSE /\ handle_help(c, authed)
                 /\ UNCHANGED <<request_queue, sequence, conversation_histories>>

\* handle_message: one frame read from the socket of c
HandleMessage(c, frame) ==
    /\ conn_pc[c] = "open"
    /\ IF is_external_duplicate_message(frame)
       THEN UNCHANGED <<request_queue, sequence, conversation_histories, ws_sent,
                        tokens, state, pending_command_futures, futureVars>>
       ELSE IF frame.messagePurpose = "commandResponse"
       THEN /\ handle_command_response(c, frame)
            /\ UNCHANGED <<request_queue, sequence, conversation_histories, ws_sent,
                           tokens, state>>
       ELSE IF frame.eventName = "PlayerMessage" /\ frame.command # None
       THEN /\ handle_command(c, WithPlayerName(c, frame), frame.command, frame.content)
            /\ UNCHANGED <<pending_command_futures, futureVars>>
       ELSE /\ state' = [state EXCEPT ![c] = WithPlayerName(c, frame)]
            /\ UNCHANGED <<request_queue, sequence, conversation_histories, ws_sent,
                           tokens, pending_command_futures, futureVars>>
    /\ UNCHANGED <<queue_max_size, response_queues, queue_items, connection_locks,
                   locks, workerVars, conn_pc, connections, sender_tasks, sender,
                   shutdown_pc, shutdown_list, dev_mode, streamVars, stripVars, sideVars, sender_sent, enter_order>>

\* the expiry time of the stored token passes: verify_token rejects it from
\* now on (jwt.ExpiredSignatureError)
TokenExpires(c) ==
    /\ tokens[c] = "valid"
    /\ tokens' = [tokens EXCEPT ![c] = "expired"]
    /\ UNCHANGED <<brokerVars, workerVars, conn_pc, connections, sender_tasks, sender,
                   pending_command_futures, shutdown_pc, shutdown_list, ws_sent,
                   dev_mode, streamVars, stripVars, sideVars, sender_sent, state, futureVars, enter_order>>

\* MessageBroker.submit_request called with a priority of the caller's choice
SubmitRequest(c, p) ==
    /\ conn_pc[c] = "open"
    /\ \E raised \in BOOLEAN : submit_request(c, ChatRequest(TRUE), p, raised)
    /\ UNCHANGED <<queue_max_size, conversation_histories, response_queues, queue_items, connection_locks,
                   locks, workerVars, connVars, streamVars, stripVars, sideVars, futureVars, enter_order>>

---------------------------------------------------------------------------
(* ConnectionManager.shutdown_all, called by WebSocketServer.stop *)

RECURSIVE SkipEnded(_)
\* cancelling and awaiting a sender task that has ended does not suspend
SkipEnded(tasks) ==
    IF tasks = <<>> \/ sender[Head(tasks)].pc # "done" THEN tasks
    ELSE SkipEnded(Tail(tasks))

\* the first loop of shutdown_all goes on to the tasks in rest: it cancels
\* the first and awaits it; when none is left the second loop starts to close
\* the sockets of the connections, and with no connection the registries
\* are cleared at once
ShutdownCancelNext(rest) ==
    IF rest # <<>>
    THEN /\ sender' = [sender EXCEPT ![Head(rest)].cancel = TRUE]
         /\ shutdown_pc' = "cancelling"
         /\ shutdown_list' = rest
         /\ UNCHANGED <<connections, sender_tasks>>
    ELSE /\ UNCHANGED sender
         /\ IF connections # <<>>
            THEN /\ shutdown_pc' = "closing"
                 /\ shutdown_list' = connections
                 /\ UNCHANGED <<connections, sender_tasks>>
            ELSE /\ shutdown_pc' = "done"
                 /\ shutdown_list' = <<>>
                 /\ connections' = <<>>
                 /\ sender_tasks' = <<>>

ShutdownAll ==
    /\ shutdown_pc = "idle"
    /\ ShutdownCancelNext(SkipEnded(sender_tasks))
    /\ UNCHANGED <<brokerVars, workerVars, conn_pc, pending_command_futures, ws_sent,
                   authVars, streamVars, stripVars, sideVars, sender_sent, futureVars, enter_order>>

\* "await task" returns in the first loop
ShutdownAwaited ==
    /\ shutdown_pc = "cancelling"
    /\ sender[Head(shutdown_list)].pc = "done"
    /\ ShutdownCancelNext(SkipEnded(Tail(shutdown_list)))
    /\ UNCHANGED <<brokerVars, workerVars, conn_pc, pending_command_futures, ws_sent,
                   authVars, streamVars, stripVars, sideVars, sender_sent, futureVars, enter_order>>

\* "await state.websocket.close()" returns in the second loop; after the
\* last one the registries are cleared
ShutdownClosed ==
    /\ shutdown_pc = "closing"
    /\ conn_pc' = [conn_pc EXCEPT ![Head(shutdown_list)] =
                     IF @ = "open" THEN "socket_closed" ELSE @]
    /\ shutdown_list' = Tail(shutdown_list)
    /\ IF Tail(shutdown_list) = <<>>
       THEN /\ shutdown_pc' = "done"
            /\ connections' = <<>>
            /\ sender_tasks' = <<>>
       ELSE UNCHANGED <<shutdown_pc, connections, sender_tasks>>
    /\ UNCHANGED <<brokerVars, workerVars, sender, pending_command_futures, ws_sent,
                   authVars, streamVars, stripVars, sideVars, sender_sent, futureVars, enter_order>>

---------------------------------------------------------------------------
(* Specifications *)

\* the broker, the handlers and the worker pool: requests of any priority
Next ==
    \/ \E c \in Conns : Register(c)
    \/ \E c \in Conns : Unregister(c)
    \/ \E c \in Conns : UnregisterAfterCancel(c)
    \/ \E c \in Conns : SenderCancelled(c)
    \/ \E c \in Conns, frame \in PlayerFrames :
         /\ sequence < MaxRequests /\ Len(ws_sent[c]) < MaxRequests
         /\ HandleMessage(c, frame)
    \/ \E c \in Conns, p \in Priorities :
         /\ sequence < MaxRequests
         /\ SubmitRequest(c, p)
    \/ \E w \in Workers : WorkerGet(w)
    \/ \E w \in Workers : WorkerLockAcquired(w)
    \/ \E w \in Workers : WorkerFinish(w)

\* the server started in dev mode: commands need no login
InitDev == Init /\ dev_mode /\ stream_sentence_mode

Spec == InitDev /\ [][Next]_vars

\* the command RPC: the tool calls the agent makes for one chat, the sender
\* tasks, the answers of the game, disconnects and shutdown
NextRpc ==
    \/ \E c \in Conns : Register(c)
    \/ \E c \in Conns : Unregister(c)
    \/ \E c \in Conns : UnregisterAfterCancel(c)
    \/ \E c \in Conns, frame \in PlayerFrames :
         /\ sequence = 0 /\ ws_sent[c] = <<>>
         /\ HandleMessage(c, frame)
    \/ \E c \in Conns, frame \in ResponseFrames : HandleMessage(c, frame)
    \/ \E w \in Workers : WorkerGet(w)
    \/ \E w \in Workers : WorkerFinish(w)
    \/ \E w \in Workers : WorkerRunCommand(w)
    \/ \E w \in Workers : WorkerFutureResult(w)
    \/ \E w \in Workers : WorkerFutureTimeout(w)
    \/ \E c \in Conns : SenderGet(c)
    \/ \E c \in Conns : SenderSent(c)
    \/ \E c \in Conns : SenderSendFailed(c)
    \/ \E c \in Conns : SenderCancelled(c)
    \/ \E f \in FutureIds : RunCallback(f)
    \/ ShutdownAll
    \/ ShutdownAwaited
    \/ ShutdownClosed

\* the queue capacity plays no part in the RPC of a single chat
InitRpc == InitDev /\ queue_max_size = MaxQueueSize

SpecRpc == InitRpc /\ [][NextRpc]_vars

\* wait_for returns once the future is done or its 10 s have passed
SpecRpcFair ==
    SpecRpc /\ \A w \in Workers :
                  WF_vars(WorkerFutureResult(w) \/ WorkerFutureTimeout(w))

\* chats a player sends, and answers the handler sends, in a run
MaxChats == 2
MaxReplies == 2

\* the chat frame of a player
ChatFrames == {frame \in CommandFrames : frame.command = "chat" /\ frame.content = "hi"}

\* the commands of a player with and without dev mode: the login, the
\* expiry of its token, and chats that the workers complete (the model
\* answers them with plain text)
NextCmd ==
    \/ \E c \in Conns : Register(c)
    \/ \E c \in Conns, frame \in CommandFrames :
         /\ sequence < MaxChats /\ Len(ws_sent[c]) < MaxReplies
         /\ HandleMessage(c, frame)
    \/ \E c \in Conns : TokenExpires(c)
    \/ \E w \in Workers : WorkerGet(w)
    \/ \E w \in Workers : WorkerLockAcquired(w)
    \/ \E w \in Workers : WorkerStartRun(w)
    \/ \E w \in Workers : WorkerTextCompletion(w)

\* with and without dev mode
InitCmd == Init /\ stream_sentence_mode /\ queue_max_size = MaxQueueSize

SpecCmd == InitCmd /\ [][NextCmd]_vars

\* the chat runs of the workers in dev mode: content, completion, errors
\* and exceptions, while the connection may close
NextChat ==
    \/ \E c \in Conns : Register(c)
    \/ \E c \in Conns : Unregister(c)
    \/ \E c \in Conns : UnregisterAfterCancel(c)
    \/ \E c \in Conns : SenderCancelled(c)
    \/ \E c \in Conns, frame \in ChatFrames :
         /\ sequence < MaxChats
         /\ HandleMessage(c, frame)
    \/ \E w \in Workers : WorkerGet(w)
    \/ \E w \in Workers : WorkerLockAcquired(w)
    \/ \E w \in Workers : WorkerStartRun(w)
    \/ \E w \in Workers : WorkerProviderError(w)
    \/ \E w \in Workers : WorkerContentEvent(w)
    \/ \E w \in Workers : WorkerCompletionEvent(w)
    \/ \E w \in Workers : WorkerErrorEvent(w)
    \/ \E w \in Workers : WorkerException(w)

SpecChat == InitRpc /\ [][NextChat]_vars

---------------------------------------------------------------------------
(* Per-connection processing order *)

\* C1: for every connection the requests enter _process_request_locked in
\* the order in which they were submitted (sequence numbers are handed out
\* in submission order), whatever their priorities and the worker count
C1_ProcessingOrderIsSubmissionOrder ==
    \A c \in Conns : \A i, j \in DOMAIN enter_order[c] :
        i < j => enter_order[c][i] < enter_order[c][j]

\* the workers that are inside _process_request_locked for connection c
InLockedSection(c) ==
    {w \in Workers : /\ worker_pc[w] \in {"locked", "await_future"}
                     /\ worker_item[w].connection_id = c}

\* C2: at most one worker is inside the lock-protected section of a
\* connection id, whether or not the connection is still registered
C2_OneWorkerPerConnection ==
    \A c \in Conns : Cardinality(InLockedSection(c)) <= 1

---------------------------------------------------------------------------
(* The request queue *)

\* a player frame that carries a chat with content and passes the filter
IsChat(frame) ==
    /\ frame.messagePurpose = "event"
    /\ frame.eventName = "PlayerMessage"
    /\ frame.sender # "external"
    /\ frame.command = "chat"
    /\ frame.content # ""

\* the item a worker takes in a step, if it takes one
Takes(w, i) == worker_item[w] = NoItem /\ worker_item'[w] = i /\ i # NoItem

\* C8: get_request returns the queued item that is smallest by priority,
\* then by sequence; sequence numbers are unique and grow with every
\* submission, so items of equal priority leave in submission order
C8_SmallestFirst ==
    /\ [](\A a, b \in request_queue : a # b => a.sequence # b.sequence)
    /\ [](\A a \in request_queue : a.sequence <= sequence)
    /\ [][/\ \A i \in request_queue' \ request_queue : i.sequence > sequence
          /\ \A w \in Workers : \A i \in request_queue :
                Takes(w, i) =>
                    \A j \in request_queue \ {i} :
                        \/ i.priority < j.priority
                        \/ i.priority = j.priority /\ i.sequence < j.sequence]_vars

\* a worker took a later request of higher priority past an earlier one that
\* is still queued, and a request of the priority of one still queued
C8_Witness ==
    \E w \in Workers : \E j, k \in request_queue :
        /\ worker_pc[w] = "locked"
        /\ worker_item[w].priority < j.priority
        /\ worker_item[w].sequence > j.sequence
        /\ worker_item[w].priority = k.priority

\* C9: the queue never holds more than queue_max_size requests; a
\* submit_request on a full queue leaves it as it is, and handle_chat then
\* sends the busy error and enqueues nothing
C9_FullQueueRejects ==
    /\ [](Cardinality(request_queue) <= queue_max_size)
    /\ [][\A c \in Conns :
            /\ \A p \in Priorities :
                 SubmitRequest(c, p) /\ Cardinality(request_queue) = queue_max_size
                    => request_queue' = request_queue
            /\ \A frame \in PlayerFrames :
                 /\ HandleMessage(c, frame)
                 /\ IsChat(frame)
                 /\ Cardinality(request_queue) = queue_max_size
                 => /\ request_queue' = request_queue
                    /\ ws_sent' = [ws_sent EXCEPT ![c] = Append(@, BusyError)]]_vars

\* a chat was answered with the busy error while the queue is full
C9_Witness ==
    \E c \in Conns :
        /\ ws_sent[c] # <<>>
        /\ ws_sent[c][Len(ws_sent[c])] = BusyError
        /\ Cardinality(request_queue) = queue_max_size
        /\ queue_max_size = MaxQueueSize

\* the chats that were answered with the busy error
BusyReplies == Cardinality({<<c, i>> \in Conns \X (1..MaxRequests + 1) :
                              i \in DOMAIN ws_sent[c] /\ ws_sent[c][i] = BusyError})

\* the requests a worker has taken and not yet started to process
WaitingForLock == Cardinality({w \in Workers : worker_pc[w] = "wait_lock"})

Entered == Cardinality({<<c, i>> \in Conns \X (1..MaxRequests + 1) :
                          i \in DOMAIN enter_order[c]})

\* C10 as stated: with queue_max_size = 1, a chat that arrives while a worker
\* is processing a request is answered with the busy error and not enqueued
C10_BusyWhileInFlight ==
    [][\A c \in Conns : \A frame \in PlayerFrames :
          /\ HandleMessage(c, frame)
          /\ IsChat(frame)
          /\ queue_max_size = 1
          /\ \E w \in Workers : worker_pc[w] = "locked"
          => /\ request_queue' = request_queue
             /\ ws_sent' = [ws_sent EXCEPT ![c] = Append(@, BusyError)]]_vars

\* C10, amended: with queue_max_size = 1, a chat that arrives while a request
\* is queued and not yet taken by a worker is answered with the busy error
\* and not enqueued, and no worker ever takes it: the requests taken or
\* queued are never more than the submissions that were not answered busy
C10_BusyWhileQueued ==
    /\ [][\A c \in Conns : \A frame \in PlayerFrames :
            /\ HandleMessage(c, frame)
            /\ IsChat(frame)
            /\ queue_max_size = 1
            /\ Cardinality(request_queue) = 1
            => /\ request_queue' = request_queue
               /\ worker_pc' = worker_pc
               /\ ws_sent' = [ws_sent EXCEPT ![c] = Append(@, BusyError)]]_vars
    /\ [](queue_max_size = 1 =>
            Entered + WaitingForLock + Cardinality(request_queue) + BusyReplies
                <= sequence)

\* with queue_max_size = 1: one request in flight, one queued, and a third
\* chat answered with the busy error
C10_Witness ==
    /\ queue_max_size = 1
    /\ \E w \in Workers : worker_pc[w] = "locked"
    /\ Cardinality(request_queue) = 1
    /\ BusyReplies = 1

---------------------------------------------------------------------------
(* The command RPC *)

\* the futures run_command sent to the response queue of c
SentFutures(c) == {f \in FutureIds : futures[f].conn = c /\ futures[f].queued}

\* a step of unregister(c), or of the sender task it cancelled and awaits
UnregisterStep(c) ==
    \/ Unregister(c)
    \/ UnregisterAfterCancel(c)
    \/ conn_pc[c] = "unregistering" /\ SenderCancelled(c)

\* C3: when unregister(c) has returned, every run_command future of c is
\* done, and those that were not done before were completed by unregister
\* with the connection-closed text
C3_UnregisterFailsEveryFuture ==
    /\ [](\A c \in Conns : conn_pc[c] = "closed" =>
            \A f \in SentFutures(c) : Done(f))
    /\ [][\A c \in Conns : UnregisterStep(c) =>
            \A f \in SentFutures(c) :
                ~Done(f) /\ futures'[f].state # "pending" =>
                    futures'[f].state = "result" /\ futures'[f].result = ClosedResult]_vars

\* the futures a run_command call is waiting on
Awaited == {worker_future[w] : w \in {v \in Workers : worker_pc[v] = "await_future"}}

\* C4: no future is completed twice (set_result and cancel are never applied
\* to a done future), a future that was sent is completed exactly once by
\* the time its call has returned, and the call that awaits it always returns
C4_ResolvedExactlyOnce ==
    /\ [](\A f \in FutureIds : futures[f].resolutions <= 1)
    /\ [](\A f \in FutureIds :
            futures[f].queued /\ f \notin Awaited =>
                Done(f) /\ futures[f].resolutions = 1)
    /\ \A w \in Workers :
         worker_pc[w] = "await_future" ~> worker_pc[w] # "await_future"

\* a call returned the connection-closed text of a future that the game
\* answers afterwards
C4_Witness ==
    \E w \in Workers : \E f \in FutureIds :
        /\ worker_result[w] = ClosedResult
        /\ futures[f].resolutions = 1
        /\ futures[f].result = ClosedResult
        /\ f \in UNION {pending_command_futures[c] : c \in Conns}

\* C5: when shutdown_all has cancelled the sender tasks and goes on to close
\* the sockets and drop the registries, every future in a pending map or in
\* a response queue is done, completed with the connection-closed text
\* unless it was done before
C5_ShutdownFailsEveryFuture ==
    [][(shutdown_pc # "closing" /\ shutdown_pc # "done") /\ shutdown_pc' \in {"closing", "done"} =>
         \A c \in Conns :
            \A f \in pending_command_futures[c] \cup ItemFutures(queue_items[c]) :
                (futures'[f].state # "pending") /\
                (~Done(f) =>
                    (futures'[f].state = "result" /\ futures'[f].result = ClosedResult))]_vars

\* C6 as stated: a commandResponse frame whose requestId is in the pending
\* map of its connection removes the entry and completes the future with the
\* status message, or the success text when it is empty, for statusCode 0 and
\* with the failure text "(statusCode=<code>): <message>" otherwise; a frame
\* with an unknown or missing requestId changes nothing; no commandResponse
\* is handled as a player command
C6_CommandResponseResolves ==
    [][\A c \in Conns : \A frame \in ResponseFrames :
          HandleMessage(c, frame) =>
            LET f == frame.requestId IN
            /\ UNCHANGED <<request_queue, sequence, ws_sent>>
            /\ IF f \in pending_command_futures[c]
               THEN /\ f \notin pending_command_futures'[c]
                    /\ futures'[f].state = "result"
                    /\ futures'[f].result =
                         IF frame.statusCode = 0
                         THEN IF frame.statusMessage = ""
                              THEN SuccessResult ELSE <<frame.statusMessage>>
                         ELSE <<"command failed(statusCode=",
                                ToString(frame.statusCode), "): ", frame.statusMessage>>
               ELSE UNCHANGED <<pending_command_futures, futures>>]_vars

\* C6, amended: the frame must pass the external-duplicate filter; the entry
\* is removed, a future that is already done keeps its outcome, and the
\* failure text ends after "(statusCode=<code>)" when the message is empty
C6_CommandResponseResolvesUnlessDone ==
    [][\A c \in Conns : \A frame \in ResponseFrames :
          \/ LET f == frame.requestId IN
            /\ UNCHANGED <<request_queue, sequence, ws_sent>>
            /\ IF /\ f \in pending_command_futures[c]
                  /\ ~(frame.eventName = "PlayerMessage" /\ frame.sender = "external")
               THEN /\ pending_command_futures'[c] = pending_command_futures[c] \ {f}
                    /\ \A g \in FutureIds \ {f} : futures'[g] = futures[g]
                    /\ IF futures[f].state = "pending"
                       THEN /\ futures'[f].state = "result"
                            /\ futures'[f].result =
                                 IF frame.statusCode = 0
                                 THEN IF frame.statusMessage = ""
                                      THEN SuccessResult ELSE <<frame.statusMessage>>
                                 ELSE IF frame.statusMessage = ""
                                      THEN <<"command failed(statusCode=",
                                             ToString(frame.statusCode), ")">>
                                      ELSE <<"command failed(statusCode=",
                                             ToString(frame.statusCode), "): ",
                                             frame.statusMessage>>
                       ELSE futures'[f] = futures[f]
               ELSE UNCHANGED <<pending_command_futures, futures>>
          \/ ~HandleMessage(c, frame)]_vars

\* futures completed by answers of the game: one with a failure that has no
\* message, and one awaited call that returned the game's message
C6_Witness ==
    \E f \in FutureIds : \E w \in Workers :
        /\ futures[f].result = <<"command failed(statusCode=", "1", ")">>
        /\ worker_result[w] = <<"Gave 1 Diamond">>

\* C7: a run_command call whose future is not completed in time cancels it
\* and returns the timeout text to the agent, which goes on; a cancelled
\* future is in a pending map only while its cleanup callback is scheduled,
\* whether it was cancelled after the command was sent or while it was queued
C7_TimeoutIsCleanedUp ==
    /\ [](\A c \in Conns : \A f \in pending_command_futures[c] :
            futures[f].state = "cancelled" => f \in callbacks)
    /\ [][\A w \in Workers :
            LET f == worker_future[w] IN
            f # 0 /\ futures[f].state = "pending" /\ futures'[f].state = "cancelled"
                => /\ worker_result'[w] = TimeoutResult
                   /\ worker_pc'[w] = "locked"]_vars
    /\ [][\A f \in FutureIds :
            f \in callbacks /\ f \notin callbacks' /\ futures[f].state = "cancelled"
                => \A c \in Conns : f \notin pending_command_futures'[c]]_vars

\* one future timed out and its cleanup has taken it out of the pending map;
\* another timed out while it was queued and is recorded by the sender task
\* afterwards, with its cleanup scheduled
C7_Witness ==
    \E c \in Conns : \E f \in pending_command_futures[c] :
      \E g \in FutureIds \ {f} : \E w \in Workers :
        /\ futures[f].state = "cancelled"
        /\ f \in callbacks
        /\ sender[c].pc = "send"
        /\ sender[c].response.future = f
        /\ futures[g].state = "cancelled"
        /\ futures[g].callback
        /\ g \notin callbacks
        /\ g \notin pending_command_futures[c]
        /\ worker_result[w] = TimeoutResult

---------------------------------------------------------------------------
(* Authentication of commands *)

\* the fields of a ConnectionState that commands set
Settings(st) ==
    <<st.context_enabled, st.current_provider, st.current_template, st.custom_variables>>

\* C11: with dev mode off, a command other than login on a connection whose
\* stored token is missing or expired is answered with the error
\* "请先登录" and nothing else happens: no request is submitted, and the
\* history, the context flag, the provider, the template and the variables
\* stay as they are; in dev mode no command is answered with that error,
\* and a chat with content is submitted without any login
C11_CommandsNeedLogin ==
    [][\A c \in Conns, frame \in CommandFrames :
         (HandleMessage(c, frame) /\ frame.command # "login")
         => IF ~dev_mode /\ tokens[c] # "valid"
            THEN /\ ws_sent'[c] = Append(ws_sent[c], LoginFirstError)
                 /\ UNCHANGED <<request_queue, sequence, conversation_histories,
                                tokens>>
                 /\ Settings(state'[c]) = Settings(state[c])
            ELSE /\ ws_sent'[c] = ws_sent[c]
                    \/ ws_sent'[c][Len(ws_sent'[c])] # LoginFirstError
                 /\ (frame.command = "chat" /\ frame.content # "")
                    => sequence' = sequence + 1
                 /\ (frame.command = "context" /\ frame.content = "off")
                    => ~state'[c].context_enabled]_vars

\* a login whose token has expired: the connection has a history from a chat
\* made while the token was valid, and its last command was refused
C11_Witness ==
    \E c \in Conns :
        /\ ~dev_mode
        /\ tokens[c] = "expired"
        /\ state[c].authenticated
        /\ get_conversation_history(c) # <<>>
        /\ ws_sent[c] = <<LoginOk, LoginFirstError>>

---------------------------------------------------------------------------
(* The broker's per-connection state *)

\* handle_connection is between register and the end of unregister
Registered(c) == conn_pc[c] \in {"open", "socket_closed", "unregistering"}

\* C12: the broker holds a response queue for an id exactly while the id is
\* registered, and neither a lock nor a history for an id that is not
C12_NoStateForUnregistered ==
    \A c \in Conns :
        /\ c \in response_queues <=> Registered(c)
        /\ c \notin response_queues
           => /\ connection_locks[c] = 0
              /\ c \notin DOMAIN conversation_histories

---------------------------------------------------------------------------
(* Chat runs that fail *)

\* the last item of a response queue is an error chunk
EndsWithError(items) ==
    /\ items # <<>>
    /\ items[Len(items)].type = "chunk"
    /\ items[Len(items)].chunk_type = "error"

---------------------------------------------------------------------------
(* AgentEngine: sentences and batches (services/agent/core.py).  A text is *)
(* a sequence of characters; the alphabet has one letter, one blank, and   *)
(* two terminators of SENTENCE_END_PATTERN, one of which (the line feed)   *)
(* is also white space for str.strip().                                    *)

MaxTextLen == 4        \* the longest response text of a run
MaxDelta == 2          \* the longest text delta
MaxChars == 2          \* max_chars of _iter_sentence_batches (150 in the code)
MaxToolCalls == 1      \* the function tool calls of a run

Chars == {"a", ".", " ", "\n"}
Terminators == {".", "\n"}
Whitespace == {" ", "\n"}

RECURSIVE TextsOfLen(_)
TextsOfLen(n) ==
    IF n = 0 THEN {<<>>}
    ELSE {Append(t, ch) : t \in TextsOfLen(n - 1), ch \in Chars}

Texts == UNION {TextsOfLen(n) : n \in 0..MaxTextLen}
Deltas == UNION {TextsOfLen(n) : n \in 1..MaxDelta}

\* str.strip(): the text without its leading and trailing white space
strip(s) ==
    LET inked == {i \in 1..Len(s) : s[i] \notin Whitespace} IN
    IF inked = {} THEN <<>>
    ELSE LET first == CHOOSE i \in inked : \A j \in inked : i <= j
             last == CHOOSE i \in inked : \A j \in inked : j <= i
         IN SubSeq(s, first, last)

\* the end of the match one character of the pattern without "+" gives
match_end_single(buffer, i) == i

\* match.end() of the match of [...]+ that starts at position i: the
\* pattern is greedy, the match runs to the last terminator of the run
match_end(buffer, i) ==
    CHOOSE e \in i..Len(buffer) :
        /\ \A j \in i..e : buffer[j] \in Terminators
        /\ e = Len(buffer) \/ buffer[e + 1] \notin Terminators

\* the loop over SENTENCE_END_PATTERN.finditer(buffer), scanning from
\* position i with last_end and the sentences found so far
RECURSIVE finditer_loop(_, _, _, _)
finditer_loop(buffer, i, last_end, sentences) ==
    IF i > Len(buffer)
    THEN [sentences |-> sentences, rest |-> SubSeq(buffer, last_end + 1, Len(buffer))]
    ELSE IF buffer[i] \in Terminators
    THEN LET e == match_end(buffer, i)
             sentence == SubSeq(buffer, last_end + 1, e)
         IN finditer_loop(buffer, e + 1, e,
                          IF strip(sentence) # <<>> THEN Append(sentences, sentence)
                          ELSE sentences)
    ELSE finditer_loop(buffer, i + 1, last_end, sentences)

\* _extract_complete_sentences(buffer): (sentences, remaining buffer)
extract_complete_sentences(buffer) == finditer_loop(buffer, 1, 0, <<>>)

\* the chunks sentence[start : start + max_chars] that are not blank
RECURSIVE length_chunks(_, _)
length_chunks(sentence, max_chars) ==
    IF sentence = <<>> THEN <<>>
    ELSE LET n == IF Len(sentence) < max_chars THEN Len(sentence) ELSE max_chars
             chunk == SubSeq(sentence, 1, n)
             rest == length_chunks(SubSeq(sentence, n + 1, Len(sentence)), max_chars)
         IN IF strip(chunk) # <<>> THEN <<chunk>> \o rest ELSE rest

\* a batch is never cut off: "len(batch) + len(sentence) > max_chars" is dropped
overflows_never(batch, sentence, max_chars) == FALSE

\* len(batch) + len(sentence) > max_chars
overflows(batch, sentence, max_chars) == Len(batch) + Len(sentence) > max_chars

\* the for loop of _iter_sentence_batches over the sentences from index i,
\* with the batch being filled and the batches yielded so far
RECURSIVE batch_loop(_, _, _, _, _)
batch_loop(sentences, i, batch, yielded, max_chars) ==
    IF i > Len(sentences)
    THEN IF strip(batch) # <<>> THEN Append(yielded, batch) ELSE yielded
    ELSE LET sentence == sentences[i] IN
         IF Len(sentence) > max_chars
         THEN LET flushed == IF strip(batch) # <<>> THEN Append(yielded, batch) ELSE yielded
                  kept == IF strip(batch) # <<>> THEN <<>> ELSE batch
              IN batch_loop(sentences, i + 1, kept,
                            flushed \o length_chunks(sentence, max_chars), max_chars)
         ELSE IF overflows(batch, sentence, max_chars) /\ strip(batch) # <<>>
         THEN batch_loop(sentences, i + 1, sentence, Append(yielded, batch), max_chars)
         ELSE batch_loop(sentences, i + 1, batch \o sentence, yielded, max_chars)

\* _iter_sentence_batches(text, max_chars): the batches in the order yielded
iter_sentence_batches(text, max_chars) ==
    IF text = <<>> THEN <<>>
    ELSE LET ex == extract_complete_sentences(text)
             sentences == IF strip(ex.rest) # <<>> THEN Append(ex.sentences, ex.rest)
                          ELSE ex.sentences
         IN batch_loop(sentences, 1, <<>>, <<>>, max_chars)


---------------------------------------------------------------------------
(* AgentEngine: one run of stream_chat.  The handler (streaming or not)    *)
(* yields StreamEvents, stream_chat forwards them and ends the run.        *)

\* StreamEvent(event_type, content, sequence, metadata)
StreamEvent(event_type, content, seq, is_complete, tool_events) ==
    [event_type |-> event_type, content |-> content, sequence |-> seq,
     is_complete |-> is_complete, tool_events |-> tool_events]

ErrorContent == <<"error">>

\* the tools a run calls (two of those registered in services/agent/tools.py)
ToolNames == {"run_minecraft_command", "send_game_message"}

\* the tool_info stream_response_handler records for a function tool call
ToolInfo(id, tool_name) == [tool_name |-> tool_name, tool_call_id |-> id]

\* a function-tool event of a call-tools node, or the tool-call or
\* tool-return part of a new message
NodeEvent(kind, id, tool_name) ==
    [kind |-> kind, tool_call_id |-> id, tool_name |-> tool_name]

\* ctx.sequence is left as it was
same_sequence(seq) == seq

\* ctx.sequence += 1
next_sequence(seq) == seq + 1

\* the content events "yield await _send_content_event(ctx, s)" gives for
\* the texts of pieces, the first of them with sequence seq
content_events(pieces, seq) ==
    [i \in 1..Len(pieces) |-> StreamEvent("content", pieces[i], seq + i - 1, FALSE, <<>>)]

RECURSIVE sequence_after(_, _)
sequence_after(seq, n) == IF n = 0 THEN seq ELSE sequence_after(next_sequence(seq), n - 1)

\* stream_chat goes on after an error event
returns_never(event) == FALSE

\* stream_chat: "if event.event_type == 'error': yield event; return"
returns_on(event) == event.event_type = "error"

\* stream_chat forwards what the handler yields, and stops at an error event
forward(yielded) ==
    /\ events' = events \o yielded
    /\ chat_pc' = IF \E i \in 1..Len(yielded) : returns_on(yielded[i]) THEN "done"
                  ELSE chat_pc

\* stream_chat starts: a fresh context, the handler of the mode
StreamChatStart ==
    /\ chat_pc = "idle"
    /\ chat_pc' = "running"
    /\ handler_pc' = "running"
    /\ ctx' = _HandlerContext
    /\ UNCHANGED <<stream_sentence_mode, events, fed, cuts, node_events>>
    /\ UNCHANGED <<brokerVars, workerVars, connVars, futureVars, stripVars, sideVars, enter_order>>

\* stream_response_handler, model-request node: a PartStartEvent with
\* content or a text delta; the buffer grows and its complete sentences go out
StreamDelta(chunk) ==
    /\ stream_sentence_mode
    /\ handler_pc = "running"
    /\ chat_pc = "running"
    /\ Len(fed) + Len(chunk) <= MaxTextLen
    /\ LET ex == extract_complete_sentences(ctx.sentence_buffer \o chunk) IN
        /\ ctx' = [ctx EXCEPT !.sentence_buffer = ex.rest,
                              !.sequence = sequence_after(@, Len(ex.sentences))]
        /\ forward(content_events(ex.sentences, ctx.sequence))
    /\ fed' = fed \o chunk
    /\ cuts' = cuts \cup {Len(fed')}
    /\ UNCHANGED <<stream_sentence_mode, handler_pc, node_events>>
    /\ UNCHANGED <<brokerVars, workerVars, connVars, futureVars, stripVars, sideVars, enter_order>>

\* call-tools node with one function tool call: the FunctionToolCallEvent
\* is recorded in ctx.tool_events and logged, the FunctionToolResultEvent
\* of the call is logged; the handler yields nothing in this node
StreamCallTools(id, tool_name) ==
    /\ stream_sentence_mode
    /\ handler_pc = "running"
    /\ chat_pc = "running"
    /\ id = Len(ctx.tool_events) + 1
    /\ ctx' = [ctx EXCEPT !.tool_events = Append(@, ToolInfo(id, tool_name))]
    /\ node_events' = node_events \o <<NodeEvent("tool_call", id, tool_name),
                                       NodeEvent("tool_result", id, tool_name)>>
    /\ UNCHANGED <<stream_sentence_mode, events, handler_pc, chat_pc, fed, cuts>>
    /\ UNCHANGED <<brokerVars, workerVars, connVars, futureVars, stripVars, sideVars, enter_order>>

\* end node: the tail of the buffer is flushed when it is not blank, and
\* the handler's generator is exhausted
StreamEnd ==
    /\ stream_sentence_mode
    /\ handler_pc = "running"
    /\ chat_pc = "running"
    /\ IF strip(ctx.sentence_buffer) # <<>>
       THEN /\ forward(content_events(<<ctx.sentence_buffer>>, ctx.sequence))
            /\ ctx' = [ctx EXCEPT !.sentence_buffer = <<>>,
                                  !.sequence = next_sequence(@)]
       ELSE UNCHANGED <<ctx, events, chat_pc>>
    /\ handler_pc' = "ended"
    /\ UNCHANGED <<stream_sentence_mode, fed, cuts, node_events>>
    /\ UNCHANGED <<brokerVars, workerVars, connVars, futureVars, stripVars, sideVars, enter_order>>

\* an exception inside the handler (either mode): one error event with
\* ctx.sequence, and the handler's generator is exhausted
HandlerRaise ==
    /\ handler_pc = "running"
    /\ chat_pc = "running"
    /\ forward(<<StreamEvent("error", ErrorContent, ctx.sequence, FALSE, <<>>)>>)
    /\ handler_pc' = "ended"
    /\ UNCHANGED <<stream_sentence_mode, ctx, fed, cuts, node_events>>
    /\ UNCHANGED <<brokerVars, workerVars, connVars, futureVars, stripVars, sideVars, enter_order>>

\* the tool-call and tool-return parts of the new messages of a run that
\* called the tools of calls, in that order
new_message_tool_parts(calls) ==
    [i \in 1..(2 * Len(calls)) |->
        IF i % 2 = 1 THEN NodeEvent("tool_call", (i + 1) \div 2, calls[(i + 1) \div 2])
        ELSE NodeEvent("tool_result", i \div 2, calls[i \div 2])]

\* part_kind == "tool-call", with a tool name
IsToolCallPart(part) == part.kind = "tool_call" /\ part.tool_name # ""

\* the parts are read from the last to the first
extract_tool_events_reversed(parts) ==
    LET found == SelectSeq(parts, IsToolCallPart) IN
    [i \in 1..Len(found) |-> ToolInfo(found[Len(found) + 1 - i].tool_call_id,
                                     found[Len(found) + 1 - i].tool_name)]

\* _extract_tool_events_from_messages: one tool_info for every tool-call
\* part of the messages that has a tool name, in the order of the parts
extract_tool_events_from_messages(parts) ==
    LET found == SelectSeq(parts, IsToolCallPart) IN
    [i \in 1..Len(found) |-> ToolInfo(found[i].tool_call_id, found[i].tool_name)]

\* non_stream_response_handler: agent.run returned full_response after the
\* tool calls of calls; the batches of the text are yielded, none for an
\* empty text
NonStreamRun(full_response, calls) ==
    /\ ~stream_sentence_mode
    /\ handler_pc = "running"
    /\ chat_pc = "running"
    /\ LET batches == iter_sentence_batches(full_response, MaxChars) IN
        /\ ctx' = [ctx EXCEPT !.tool_events = extract_tool_events_from_messages(
                                                   new_message_tool_parts(calls)),
                              !.sequence = sequence_after(@, Len(batches))]
        /\ forward(content_events(batches, ctx.sequence))
    /\ fed' = full_response
    /\ node_events' = new_message_tool_parts(calls)
    /\ handler_pc' = "ended"
    /\ UNCHANGED <<stream_sentence_mode, cuts>>
    /\ UNCHANGED <<brokerVars, workerVars, connVars, futureVars, stripVars, sideVars, enter_order>>

\* stream_chat after the handler's loop: the completion event
StreamChatComplete ==
    /\ handler_pc = "ended"
    /\ chat_pc = "running"
    /\ events' = Append(events, StreamEvent("content", <<>>, ctx.sequence, TRUE,
                                            ctx.tool_events))
    /\ chat_pc' = "done"
    /\ UNCHANGED <<stream_sentence_mode, ctx, handler_pc, fed, cuts, node_events>>
    /\ UNCHANGED <<brokerVars, workerVars, connVars, futureVars, stripVars, sideVars, enter_order>>

\* the sequences of at most n tool names of names
RECURSIVE ToolCallSeqs(_, _)
ToolCallSeqs(n, names) ==
    IF n = 0 THEN {<<>>}
    ELSE ToolCallSeqs(n - 1, names)
         \cup {Append(s, name) : s \in {x \in ToolCallSeqs(n - 1, names) : Len(x) = n - 1},
                                 name \in names}

NextStream ==
    \/ StreamChatStart
    \/ \E chunk \in Deltas : StreamDelta(chunk)
    \/ \E id \in 1..MaxToolCalls : StreamCallTools(id, "run_minecraft_command")
    \/ StreamEnd
    \/ HandlerRaise
    \/ \E full_response \in Texts, calls \in ToolCallSeqs(MaxToolCalls, {"run_minecraft_command"}) :
         NonStreamRun(full_response, calls)
    \/ StreamChatComplete

\* both modes; the server around the engine stands still
InitStream == Init /\ dev_mode /\ queue_max_size = MaxQueueSize

SpecStream == InitStream /\ [][NextStream]_vars


---------------------------------------------------------------------------
(* Claims on the engine's event sequence *)

IsError(event) == event.event_type = "error"
IsCompletion(event) == event.is_complete
IsTerminal(event) == IsError(event) \/ IsCompletion(event)

\* C14: a run of stream_chat ends with exactly one terminal event, which is
\* the last event yielded: an error event (and then no completion event), or
\* a completion event with empty content and is_complete (and then no error
\* event); nothing is yielded after it, and nothing terminal before the end.
C14_OneTerminalEvent ==
    /\ \A i \in 1..Len(events) :
         IsTerminal(events[i]) => i = Len(events) /\ chat_pc = "done"
    /\ chat_pc = "done" => /\ events # <<>>
                           /\ IsTerminal(events[Len(events)])
    /\ \A i \in 1..Len(events) :
         IsCompletion(events[i]) => /\ events[i].event_type = "content"
                                    /\ events[i].content = <<>>
                                    /\ ~IsError(events[i])

\* a run that sent content and then failed has ended on the error event
C14_Witness ==
    /\ chat_pc = "done"
    /\ handler_pc = "ended"
    /\ Len(events) >= 2
    /\ IsError(events[Len(events)])
    /\ events[1].content # <<>>

\* C15: in both modes, and for runs that end in an error too, the sequence
\* values of the events yielded start at 0 and are strictly increasing.
C15_SequenceIncreasing ==
    /\ events # <<>> => events[1].sequence = 0
    /\ \A i, j \in 1..Len(events) : i < j => events[i].sequence < events[j].sequence

\* two content events and then the error event, numbered 0, 1, 2
C15_Witness ==
    /\ chat_pc = "done"
    /\ Len(events) = 3
    /\ IsError(events[3])
    /\ events[3].sequence = 2


IsToolEvent(event) == event.event_type \in {"tool_call", "tool_result"}

\* the tool_call and tool_result StreamEvents of the run, in yield order
ToolStreamEvents == SelectSeq(events, IsToolEvent)

\* C16: the engine yields one tool_call StreamEvent for every function tool
\* call and one tool_result StreamEvent for every function tool result, in
\* the order in which they occur (streaming mode), or reconstructed from the
\* new message parts (non-streaming mode): a completed run has yielded, in
\* order, one event of the matching type for each of them.
C16_ToolEventsYielded ==
    (chat_pc = "done" /\ IsCompletion(events[Len(events)]))
    => /\ Len(ToolStreamEvents) = Len(node_events)
       /\ \A i \in 1..Len(node_events) :
            ToolStreamEvents[i].event_type = node_events[i].kind


IsContent(event) == event.event_type = "content" /\ ~event.is_complete

\* the texts of the content events of the run, in yield order
ContentTexts ==
    LET cs == SelectSeq(events, IsContent) IN [i \in 1..Len(cs) |-> cs[i].content]

\* the positions of text at which a maximal run of terminators ends
RunEnds(text) ==
    {i \in 1..Len(text) : /\ text[i] \in Terminators
                          /\ i = Len(text) \/ text[i + 1] \notin Terminators}

\* the pieces of text from position from on, cut after every position of
\* ends: the complete sentences, and the unterminated tail (maybe empty)
RECURSIVE PiecesFrom(_, _, _)
PiecesFrom(text, from, ends) ==
    IF ends = {} THEN <<SubSeq(text, from, Len(text))>>
    ELSE LET e == CHOOSE x \in ends : \A y \in ends : x <= y
         IN <<SubSeq(text, from, e)>> \o PiecesFrom(text, e + 1, ends \ {e})

NonBlank(piece) == \E i \in 1..Len(piece) : piece[i] \notin Whitespace

\* the complete sentences of the whole text, each ending at a maximal run
\* of terminators, followed by the tail; blank pieces left out
SentencesOfText(text) == SelectSeq(PiecesFrom(text, 1, RunEnds(text)), NonBlank)

StreamRunCompleted ==
    /\ stream_sentence_mode
    /\ chat_pc = "done"
    /\ IsCompletion(events[Len(events)])

\* C17 as stated: however the text is split into deltas, the content events
\* of a completed streaming run are the complete sentences of the
\* concatenated text, each ending at a maximal run of terminators, followed
\* by the non-blank tail.
C17_SentencesOfWholeText ==
    StreamRunCompleted => ContentTexts = SentencesOfText(fed)

\* no delta ends between two terminators of the text
NoCutInsideRun ==
    \A p \in cuts : p < Len(fed) => ~(fed[p] \in Terminators /\ fed[p + 1] \in Terminators)

\* C17 amended: in a completed streaming run every content event is non-blank
\* and every content event but the last ends with a terminator; when no
\* delta ends inside a run of terminators, the content events are the
\* complete sentences of the concatenated text, each ending at a maximal run
\* of terminators, followed by the non-blank tail.  (A run of terminators
\* that is split over two deltas is a boundary at the end of the first.)
C17_SentencesPerDelta ==
    StreamRunCompleted
    => /\ \A i \in 1..Len(ContentTexts) :
            /\ NonBlank(ContentTexts[i])
            /\ i < Len(ContentTexts)
               => ContentTexts[i][Len(ContentTexts[i])] \in Terminators
       /\ NoCutInsideRun => ContentTexts = SentencesOfText(fed)

\* three deltas, a run of two terminators inside one of them, two sentences
C17_Witness ==
    /\ StreamRunCompleted
    /\ NoCutInsideRun
    /\ Cardinality(cuts) >= 3
    /\ \E p \in 1..(Len(fed) - 1) : fed[p] \in Terminators /\ fed[p + 1] \in Terminators
    /\ Len(ContentTexts) = 2


\* the texts of seqs joined in order
RECURSIVE Concat(_)
Concat(seqs) == IF seqs = <<>> THEN <<>> ELSE Head(seqs) \o Concat(Tail(seqs))

NonStreamRunCompleted ==
    /\ ~stream_sentence_mode
    /\ chat_pc = "done"
    /\ IsCompletion(events[Len(events)])

LengthPieces(sentence, max_chars) ==
    [k \in 1..((Len(sentence) + max_chars - 1) \div max_chars) |->
        SubSeq(sentence, (k - 1) * max_chars + 1,
               IF k * max_chars < Len(sentence) THEN k * max_chars ELSE Len(sentence))]

\* what is sent of a sentence: all of it, or its non-blank pieces when it is
\* longer than max_chars
KeptOfSentence(sentence, max_chars) ==
    IF Len(sentence) > max_chars
    THEN Concat(SelectSeq(LengthPieces(sentence, max_chars), NonBlank))
    ELSE sentence

\* what is sent of a text: its non-blank sentences and tail, less the blank
\* pieces of those that are split by length
KeptText(text, max_chars) ==
    LET ss == SentencesOfText(text)
    IN Concat([i \in 1..Len(ss) |-> KeptOfSentence(ss[i], max_chars)])

---------------------------------------------------------------------------
(* AgentWorker._strip_reasoning_content on its own: every history of up to *)
(* MaxMessages messages of up to MaxParts parts is stripped, and the       *)
(* result is stripped again.                                               *)

\* the parts of a ModelResponse: text, thinking, a part that carries a
\* reasoning_content attribute, a tool call whose args hold the key
ResponseParts ==
    {TextPart("x"), ThinkingPart("t"), Part("text", "x", "r", None),
     Part("tool-call", "", None, "r")}

\* the parts of a ModelRequest: the user's prompt, a tool return whose
\* content holds a reasoning_content key
RequestParts == {UserPromptPart("hi"), Part("tool-return", "ok", None, "r")}

RECURSIVE SeqsOfLen(_, _)
SeqsOfLen(S, n) ==
    IF n = 0 THEN {<<>>} ELSE {Append(q, x) : q \in SeqsOfLen(S, n - 1), x \in S}

SeqsUpTo(S, n) == UNION {SeqsOfLen(S, k) : k \in 0..n}

Messages ==
    {ModelRequest(ps) : ps \in SeqsUpTo(RequestParts, MaxParts) \ {<<>>}}
    \cup {ModelResponse(ps) : ps \in SeqsUpTo(ResponseParts, MaxParts) \ {<<>>}}

Histories == SeqsUpTo(Messages, MaxMessages)

\* the caller's list after the call: the light path builds new parts and a
\* new message with dataclasses.replace, the other path clears a
\* copy.deepcopy of the message; no object of the list is written to
after_strip(history) == history

\* sanitized, _ = _strip_reasoning_content(raw_history)
StripReasoningContent ==
    /\ strip_pc = "idle"
    /\ sanitized_messages' = strip_reasoning_content(raw_history)
    /\ raw_history' = after_strip(raw_history)
    /\ strip_pc' = "once"
    /\ UNCHANGED sanitized_again
    /\ UNCHANGED <<brokerVars, workerVars, connVars, futureVars, streamVars, sideVars, enter_order>>

\* again, _ = _strip_reasoning_content(sanitized)
StripReasoningContentAgain ==
    /\ strip_pc = "once"
    /\ sanitized_again' = strip_reasoning_content(sanitized_messages)
    /\ sanitized_messages' = after_strip(sanitized_messages)
    /\ strip_pc' = "twice"
    /\ UNCHANGED raw_history
    /\ UNCHANGED <<brokerVars, workerVars, connVars, futureVars, streamVars, sideVars, enter_order>>

NextStrip == StripReasoningContent \/ StripReasoningContentAgain

InitStrip ==
    /\ InitServer
    /\ dev_mode
    /\ stream_sentence_mode
    /\ queue_max_size = MaxQueueSize
    /\ raw_history \in Histories
    /\ sanitized_messages = <<>>
    /\ sanitized_again = <<>>
    /\ strip_pc = "idle"
    /\ SideIdle

SpecStrip == InitStrip /\ [][NextStrip]_vars

\* no thinking content and no reasoning_content field, at any depth
PartIsClear(part) ==
    /\ part.part_kind = "thinking" => part.content = ""
    /\ part.reasoning_content \in {None, ""}
    /\ part.nested \in {None, ""}

HistoryIsClear(history) ==
    \A i \in DOMAIN history : \A j \in DOMAIN history[i].parts :
        PartIsClear(history[i].parts[j])

\* what a part is apart from its thinking content and reasoning_content fields
Visible(part) ==
    [part_kind |-> part.part_kind,
     content |-> IF part.part_kind = "thinking" THEN "" ELSE part.content,
     has_reasoning_content |-> part.reasoning_content # None,
     has_nested |-> part.nested # None]

SameButReasoning(a, b) ==
    /\ Len(a) = Len(b)
    /\ \A i \in DOMAIN a :
        /\ a[i].kind = b[i].kind
        /\ Len(a[i].parts) = Len(b[i].parts)
        /\ \A j \in DOMAIN a[i].parts : Visible(a[i].parts[j]) = Visible(b[i].parts[j])

\* C20: for every history h, strip_reasoning(h) has every thinking part's
\* content and every reasoning_content field empty, while all other parts and
\* the number and order of the messages are unchanged; h itself is not
\* modified; and stripping the result again gives the same result.
C20_StripClearsReasoning ==
    /\ strip_pc # "idle" => /\ HistoryIsClear(sanitized_messages)
                            /\ SameButReasoning(raw_history, sanitized_messages)
    /\ strip_pc = "twice" => sanitized_again = sanitized_messages

\* what does hold of the strip: all but the fields below a part of a
\* ModelResponse are cleared, nothing else changes, a second strip changes nothing
StripKeepsTheRest ==
    /\ strip_pc # "idle" => SameButReasoning(raw_history, sanitized_messages)
    /\ strip_pc = "twice" => sanitized_again = sanitized_messages
    /\ strip_pc # "idle" =>
         \A i \in DOMAIN sanitized_messages : \A j \in DOMAIN sanitized_messages[i].parts :
            LET part == sanitized_messages[i].parts[j] IN
            /\ part.part_kind = "thinking" => part.content = ""
            /\ part.reasoning_content \in {None, ""}
            /\ sanitized_messages[i].kind = "ModelRequest" => part.nested \in {None, ""}


\* C19: the message history handed to the model holds no non-empty
\* reasoning or thinking content, and every history the worker stores in
\* the broker after a completion has all reasoning and thinking content
\* empty, across any sequence of chat turns and compressions.
C19_NoReasoningInHistories ==
    /\ \A w \in Workers :
         run[w].phase # "none" => HistoryIsClear(run[w].message_history)
    /\ \A c \in DOMAIN conversation_histories :
         HistoryIsClear(conversation_histories[c])

\* the same for thinking parts and the reasoning_content of parts alone
ThinkingIsClear(history) ==
    \A i \in DOMAIN history : \A j \in DOMAIN history[i].parts :
        /\ history[i].parts[j].part_kind = "thinking" => history[i].parts[j].content = ""
        /\ history[i].parts[j].reasoning_content \in {None, ""}

NoThinkingInHistories ==
    /\ \A w \in Workers :
         run[w].phase # "none" => ThinkingIsClear(run[w].message_history)
    /\ \A c \in DOMAIN conversation_histories :
         ThinkingIsClear(conversation_histories[c])


---------------------------------------------------------------------------
(* AgentWorker._trim_history on its own: every list of up to MaxTrimLen    *)
(* messages is trimmed to every number of turns up to MaxTurns.            *)

MaxTrimLen == 4        \* the longest list handed to _trim_history
MaxTurns == 2          \* the largest max_turns

SystemPromptPart == Part("system-prompt", "sys", None, None)
ToolCallPart(id) == [Part("tool-call", "", None, None) EXCEPT !.tool_call_id = id]
ToolReturnPart(id) == [Part("tool-return", "ok", None, None) EXCEPT !.tool_call_id = id]

\* the messages of a history as pydantic-ai types them: requests with a user
\* prompt, with the system prompt, with both, with a tool return (alone or
\* next to a user prompt), and responses with text or with a tool call
TrimMessages ==
    {ModelRequest(<<UserPromptPart("hi")>>),
     ModelRequest(<<SystemPromptPart, UserPromptPart("hi")>>),
     ModelRequest(<<SystemPromptPart>>),
     ModelRequest(<<ToolReturnPart(1)>>),
     ModelRequest(<<ToolReturnPart(1), UserPromptPart("hi")>>),
     ModelResponse(<<TextPart("x")>>),
     ModelResponse(<<ToolCallPart(1)>>)}

\* the indexes of the messages of h that hold a part of the kind for the call
Holders(h, kind, id) ==
    {i \in DOMAIN h : \E j \in DOMAIN h[i].parts :
        /\ h[i].parts[j].part_kind = kind
        /\ h[i].parts[j].tool_call_id = id}

\* a tool_call_id names one call: one message calls, at most one returns,
\* and a return comes after its call
TrimHistories ==
    {h \in SeqsUpTo(TrimMessages, MaxTrimLen) :
        /\ Cardinality(Holders(h, "tool-call", 1)) <= 1
        /\ Cardinality(Holders(h, "tool-return", 1)) <= 1
        /\ \A j \in Holders(h, "tool-return", 1) :
             \E i \in Holders(h, "tool-call", 1) : i < j}

\* trimmed = AgentWorker._trim_history(messages, max_turns)
TrimHistory ==
    /\ trim_pc = "idle"
    /\ trimmed' = trim_history(trim_messages, trim_max_turns)
    /\ trim_pc' = "done"
    /\ UNCHANGED <<trim_messages, trim_max_turns, compressVars, sessionVars>>
    /\ UNCHANGED <<brokerVars, workerVars, connVars, futureVars, streamVars, stripVars,
                   enter_order>>

NextTrim == TrimHistory

InitTrim ==
    /\ InitServer
    /\ StripIdle
    /\ dev_mode
    /\ stream_sentence_mode
    /\ queue_max_size = MaxQueueSize
    /\ CompressIdle
    /\ SessionIdle
    /\ trim_messages \in TrimHistories
    /\ trim_max_turns \in 0..MaxTurns
    /\ trimmed = <<>>
    /\ trim_pc = "idle"

SpecTrim == InitTrim /\ [][NextTrim]_vars

\* the turn count of the statement: the requests that hold a user prompt
TurnCount(h) ==
    Cardinality({i \in DOMAIN h : h[i].kind = "ModelRequest" /\ IsUserTurn(h[i])})

IsSuffix(t, h) == Len(t) <= Len(h) /\ t = SubSeq(h, Len(h) - Len(t) + 1, Len(h))

\* C21 as stated: trim(h, N) is a suffix of h whose turn count is exactly
\* min(T, N), T being the turn count of h.
C21_TrimKeepsMinTurns ==
    trim_pc = "done"
    => /\ IsSuffix(trimmed, trim_messages)
       /\ TurnCount(trimmed) = Min(TurnCount(trim_messages), trim_max_turns)

\* no request holds the system prompt together with a user prompt
NoSystemUserRequest(h) ==
    \A i \in DOMAIN h : ~(HasPart(h[i], "system-prompt") /\ HasPart(h[i], "user-prompt"))

\* C21 amended: trim(h, N) is a suffix of h with at least min(T, N) turns; it
\* holds the N most recent turns when T >= N, and its turn count is exactly
\* min(T, N) when no request of h holds the system prompt together with a
\* user prompt (the cut is moved back over such a request when it comes
\* right before the kept messages).
C21_TrimKeepsAtLeastMinTurns ==
    trim_pc = "done"
    => /\ IsSuffix(trimmed, trim_messages)
       /\ TurnCount(trimmed) >= Min(TurnCount(trim_messages), trim_max_turns)
       /\ NoSystemUserRequest(trim_messages)
          => TurnCount(trimmed) = Min(TurnCount(trim_messages), trim_max_turns)

\* more turns than asked for, the cut moved back over a tool call, and the
\* count is the one asked for
C21_Witness ==
    /\ trim_pc = "done"
    /\ trim_max_turns = 1
    /\ TurnCount(trim_messages) = 2
    /\ NoSystemUserRequest(trim_messages)
    /\ Len(trimmed) = 3
    /\ HasPart(trimmed[1], "tool-call")
    /\ TurnCount(trimmed) = 1


\* message i of trim_messages is among the messages trim keeps
Kept(i) == i > Len(trim_messages) - Len(trimmed)

ReturnsFollowCalls(h) ==
    \A j \in Holders(h, "tool-return", 1) : (j - 1) \in Holders(h, "tool-call", 1)

---------------------------------------------------------------------------
(* One connection with the context enabled under a ConversationManager:    *)
(* chat turns complete one after the other and the player may ask for a    *)
(* compression in between.                                                 *)

MaxSetting == 5        \* the largest settings.max_history_turns
MaxChatTurns == 10     \* the chat turns of one connection
MaxForced == 2         \* the forced compressions of one connection

\* the request of chat turn k: the agent puts its system prompt in front when
\* the run starts without history
TurnRequest(k, history) ==
    ModelRequest((IF history = <<>> THEN <<SystemPromptPart>> ELSE <<>>)
                 \o <<UserPromptPart("u" \o ToString(k))>>)

\* the new messages of the run of chat turn k: the answer, or a tool call,
\* its return and the answer
TurnRuns(k) ==
    {<<ModelResponse(<<TextPart("a" \o ToString(k))>>)>>,
     <<ModelResponse(<<ToolCallPart(k)>>),
       ModelRequest(<<ToolReturnPart(k)>>),
       ModelResponse(<<TextPart("a" \o ToString(k))>>)>>}

\* the completion event of a chat turn: the worker stores the trimmed and
\* stripped messages and calls check_and_compress
ChatTurnCompletes ==
    /\ cm_chats < MaxChatTurns
    /\ \E new_messages \in TurnRuns(cm_chats + 1) :
         LET all_messages == cm_history \o <<TurnRequest(cm_chats + 1, cm_history)>>
                                        \o new_messages
             stored == strip_reasoning_content(trim_history(all_messages, cm_setting))
             checked == check_and_compress(stored, cm_setting, FALSE)
         IN /\ cm_history' = checked.history
            /\ cm_call' = [force |-> FALSE, before |-> stored,
                           success |-> checked.success, called |-> TRUE]
    /\ cm_chats' = cm_chats + 1
    /\ UNCHANGED <<cm_setting, cm_forced, trimVars, sessionVars>>
    /\ UNCHANGED <<brokerVars, workerVars, connVars, futureVars, streamVars, stripVars,
                   enter_order>>

\* handle_context with the option for compression:
\* check_and_compress(state.id, force=True)
ForceCompress ==
    /\ cm_forced < MaxForced
    /\ LET checked == check_and_compress(cm_history, cm_setting, TRUE)
       IN /\ cm_history' = checked.history
          /\ cm_call' = [force |-> TRUE, before |-> cm_history,
                         success |-> checked.success, called |-> TRUE]
    /\ cm_forced' = cm_forced + 1
    /\ UNCHANGED <<cm_setting, cm_chats, trimVars, sessionVars>>
    /\ UNCHANGED <<brokerVars, workerVars, connVars, futureVars, streamVars, stripVars,
                   enter_order>>

NextCompress == ChatTurnCompletes \/ ForceCompress

InitCompress ==
    /\ InitServer
    /\ StripIdle
    /\ TrimIdle
    /\ SessionIdle
    /\ dev_mode
    /\ stream_sentence_mode
    /\ queue_max_size = MaxQueueSize
    /\ cm_setting \in 1..MaxSetting
    /\ cm_history = <<>>
    /\ cm_chats = 0
    /\ cm_forced = 0
    /\ cm_call = NoCall

SpecCompress == InitCompress /\ [][NextCompress]_vars

\* the last call compressed: it reported success
Compressed == cm_call.called /\ cm_call.success

\* C23 as stated: with threshold = floor(0.8 x max_history_turns),
\* check_and_compress without force compresses whenever the turn count is at
\* least the threshold and leaves the history unchanged when it is below;
\* with force it compresses regardless of the turn count.
C23_CompressFromThreshold ==
    cm_call.called
    => /\ (~cm_call.force /\ count_turns(cm_call.before) >= (cm_setting * 8) \div 10)
          => cm_call.success
       /\ (~cm_call.force /\ count_turns(cm_call.before) < (cm_setting * 8) \div 10)
          => (~cm_call.success /\ cm_history = cm_call.before)
       /\ (cm_call.force /\ cm_call.before # <<>>) => cm_call.success

\* what holds of the code: nothing is compressed at the threshold itself
C23_CompressAboveThreshold ==
    cm_call.called
    => /\ (~cm_call.force /\ count_turns(cm_call.before) > (cm_setting * 8) \div 10)
          => cm_call.success
       /\ (~cm_call.force /\ count_turns(cm_call.before) <= (cm_setting * 8) \div 10)
          => (~cm_call.success /\ cm_history = cm_call.before)
       /\ (cm_call.force /\ cm_call.before # <<>>) => cm_call.success


\* the suffixes of a history
Suffixes(h) == {SubSeq(h, i, Len(h)) : i \in 1..(Len(h) + 1)}

\* the messages of the n most recent turns of h: from the request of the
\* n-th most recent user prompt to the end, all of h when it has fewer turns
RecentTurns(h, n) ==
    IF n = 0 THEN <<>>
    ELSE IF count_turns(h) < n THEN h
    ELSE CHOOSE t \in Suffixes(h) :
            t # <<>> /\ IsUserTurn(t[1]) /\ count_turns(t) = n

\* the messages of h before its n most recent turns hold a user prompt or an
\* answer with text
OlderHasText(h, n) ==
    \E i \in 1..(Len(h) - Len(RecentTurns(h, n))) : \E j \in DOMAIN h[i].parts :
        /\ h[i].parts[j].part_kind \in {"user-prompt", "text"}
        /\ h[i].parts[j].content # ""

SummaryMarker == "[summary] "

\* a request whose one part is a user prompt that starts with the marker
IsSummaryMessage(message) ==
    /\ message.kind = "ModelRequest"
    /\ Len(message.parts) = 1
    /\ message.parts[1].part_kind = "user-prompt"
    /\ Len(message.parts[1].content) >= Len(SummaryMarker)
    /\ SubSeq(message.parts[1].content, 1, Len(SummaryMarker)) = SummaryMarker

---------------------------------------------------------------------------
(* ConversationManager: saved sessions.  A connection chats, saves,         *)
(* restores, lists and deletes; the session ids handed to load, restore and   *)
(* delete are the saved ones and ids that name no session.                 *)

MaxClock == 1          \* the seconds that pass
MaxSessionChats == 2   \* the chat turns completed, all connections together

SessionConns == {"c1"}

Char(s, i) == SubSeq(s, i, i)

\* sub in s
Contains(s, sub) ==
    \E i \in 1..(Len(s) - Len(sub) + 1) : SubSeq(s, i, i + Len(sub) - 1) = sub

\* str.rfind, counted from 1: 0 when ch is not in s
rfind(s, ch) ==
    IF \E i \in 1..Len(s) : Char(s, i) = ch
    THEN CHOOSE i \in 1..Len(s) :
            Char(s, i) = ch /\ \A j \in (i + 1)..Len(s) : Char(s, j) # ch
    ELSE 0

RECURSIVE split(_, _)
\* s.split("/"), with the piece under construction
split(s, piece) ==
    IF s = "" THEN <<piece>>
    ELSE IF Char(s, 1) = "/" THEN <<piece>> \o split(SubSeq(s, 2, Len(s)), "")
    ELSE split(SubSeq(s, 2, Len(s)), piece \o Char(s, 1))

\* the components of a PurePosixPath: empty pieces and "." are dropped
path_parts(s) == SelectSeq(split(s, ""), LAMBDA piece : piece # "" /\ piece # ".")

\* Path(s).name: the last component, "" when there is none
path_name(s) ==
    IF path_parts(s) = <<>> THEN "" ELSE path_parts(s)[Len(path_parts(s))]

\* Path(s).suffix: from the last dot of the name, when that dot is neither
\* the first nor the last character of the name
path_suffix(s) ==
    LET name == path_name(s)
        i == rfind(name, ".")
    IN IF 1 < i /\ i < Len(name) THEN SubSeq(name, i, Len(name)) ELSE ""

InvalidSessionId == "invalid session id"     \* "非法会话 ID: ..."
NoSuchSession == "no such session"           \* "会话不存在: ..."
EmptyHistory == "history is empty"           \* "对话历史为空，无法保存"

\* a resolution that accepts every id
accept_every_id(session_id) == [ok |-> TRUE, path |-> session_id \o ".json"]

\* _get_session_file_path: the file of the session inside the storage
\* directory, or the ValueError
get_session_file_path(session_id) ==
    LET file == session_id \o ".json" IN
    IF path_name(session_id) # session_id \/ path_suffix(session_id) # ""
    THEN [ok |-> FALSE, error |-> InvalidSessionId]
    ELSE IF ~(Len(path_parts(file)) = 1 /\ path_parts(file)[1] # "..")
    THEN [ok |-> FALSE, error |-> InvalidSessionId]
    ELSE [ok |-> TRUE, path |-> file]

\* a validation that takes every message for a request
validate_as_request(data) ==
    [kind |-> "ModelRequest",
     parts |-> [i \in DOMAIN data.parts |->
                  [part_kind |-> data.parts[i].part_kind, content |-> data.parts[i].content,
                   reasoning_content |-> None, nested |-> data.parts[i].args,
                   tool_call_id |-> data.parts[i].tool_call_id]]]

\* ModelMessagesTypeAdapter.dump_json: the fields of the part types; an
\* attribute that is no field of the type is not written
dump_part(part) ==
    [part_kind |-> part.part_kind, content |-> part.content,
     args |-> part.nested, tool_call_id |-> part.tool_call_id]

dump_message(message) ==
    [kind |-> IF message.kind = "ModelRequest" THEN "request" ELSE "response",
     parts |-> [i \in DOMAIN message.parts |-> dump_part(message.parts[i])]]

dump_json(history) == [i \in DOMAIN history |-> dump_message(history[i])]

\* ModelMessagesTypeAdapter.validate_json: the types are chosen by the kind
\* and part_kind written
validate_part(data) ==
    [part_kind |-> data.part_kind, content |-> data.content,
     reasoning_content |-> None, nested |-> data.args,
     tool_call_id |-> data.tool_call_id]

validate_message(data) ==
    [kind |-> IF data.kind = "request" THEN "ModelRequest" ELSE "ModelResponse",
     parts |-> [i \in DOMAIN data.parts |-> validate_part(data.parts[i])]]

validate_json(messages) == [i \in DOMAIN messages |-> validate_message(messages[i])]

\* the session id of save_conversation: the connection id and the time to
\* the second
new_session_id(c) == c \o "_" \o ToString(fs_clock)

\* load_conversation on the files given
load_conversation(files, session_id) ==
    LET resolved == get_session_file_path(session_id) IN
    IF ~resolved.ok
    THEN [success |-> FALSE, result |-> resolved.error, accessed |-> {}]
    ELSE IF resolved.path \notin DOMAIN files
    THEN [success |-> FALSE, result |-> NoSuchSession, accessed |-> {resolved.path}]
    ELSE [success |-> TRUE, result |-> validate_json(files[resolved.path].messages),
          accessed |-> {resolved.path}]

\* the ids handed to load, restore and delete
SessionArgs ==
    {SubSeq(name, 1, Len(name) - 5) : name \in DOMAIN fs_files}
    \cup {"c9_0", "../escape", "a\\b", "..", "c1_0.json"}

history_of(c) == IF c \in DOMAIN fs_history THEN fs_history[c] ELSE <<>>

Operation(op, c, arg, success, result, accessed) ==
    [op |-> op, connection_id |-> c, arg |-> arg, success |-> success,
     result |-> result, accessed |-> accessed]

\* a second passes
Tick ==
    /\ fs_clock < MaxClock
    /\ fs_clock' = fs_clock + 1
    /\ fs_last' = Operation("tick", None, "", TRUE, None, {})
    /\ UNCHANGED <<fs_files, fs_history, fs_chats>>
    /\ UNCHANGED <<trimVars, compressVars>>
    /\ UNCHANGED <<brokerVars, workerVars, connVars, futureVars, streamVars, stripVars,
                   enter_order>>

\* the new messages of the run of chat turn k: a tool call, its return and
\* the answer
SessionRuns(k) ==
    {<<ModelResponse(<<ToolCallPart(k)>>),
       ModelRequest(<<ToolReturnPart(k)>>),
       ModelResponse(<<TextPart("a" \o ToString(k))>>)>>}

\* a chat turn of connection c completes: the worker stores its messages,
\* trimmed, stripped and compressed when check_and_compress finds it due
SessionChat(c) ==
    /\ fs_chats < MaxSessionChats
    /\ \E new_messages \in SessionRuns(fs_chats + 1) :
         LET all_messages == history_of(c) \o <<TurnRequest(fs_chats + 1, history_of(c))>>
                                           \o new_messages
         IN fs_history' =
              [x \in DOMAIN fs_history \cup {c} |->
                 IF x = c THEN completed_history(all_messages) ELSE fs_history[x]]
    /\ fs_chats' = fs_chats + 1
    /\ fs_last' = Operation("chat", c, "", TRUE, None, {})
    /\ UNCHANGED <<fs_clock, fs_files>>
    /\ UNCHANGED <<trimVars, compressVars>>
    /\ UNCHANGED <<brokerVars, workerVars, connVars, futureVars, streamVars, stripVars,
                   enter_order>>

\* save_conversation: the history of c is written to the file named by the
\* session id, whether or not the file exists
SaveConversation(c) ==
    /\ IF history_of(c) = <<>>
       THEN /\ fs_last' = Operation("save", c, "", FALSE, EmptyHistory, {})
            /\ UNCHANGED fs_files
       ELSE LET file == new_session_id(c) \o ".json"
                saved_data == [connection_id |-> c,
                               message_count |-> Len(history_of(c)),
                               messages |-> dump_json(history_of(c))]
            IN /\ fs_files' = [x \in DOMAIN fs_files \cup {file} |->
                                 IF x = file THEN saved_data ELSE fs_files[x]]
               /\ fs_last' = Operation("save", c, "", TRUE, new_session_id(c), {file})
    /\ UNCHANGED <<fs_clock, fs_history, fs_chats>>
    /\ UNCHANGED <<trimVars, compressVars>>
    /\ UNCHANGED <<brokerVars, workerVars, connVars, futureVars, streamVars, stripVars,
                   enter_order>>

\* _get_session_file_path called on its own
ResolveSessionPath(session_id) ==
    /\ LET resolved == get_session_file_path(session_id)
       IN fs_last' = Operation("resolve", None, session_id, resolved.ok,
                               IF resolved.ok THEN resolved.path ELSE resolved.error, {})
    /\ UNCHANGED <<fs_clock, fs_files, fs_history, fs_chats>>
    /\ UNCHANGED <<trimVars, compressVars>>
    /\ UNCHANGED <<brokerVars, workerVars, connVars, futureVars, streamVars, stripVars,
                   enter_order>>

LoadConversation(session_id) ==
    /\ LET loaded == load_conversation(fs_files, session_id)
       IN fs_last' = Operation("load", None, session_id, loaded.success, loaded.result,
                               loaded.accessed)
    /\ UNCHANGED <<fs_clock, fs_files, fs_history, fs_chats>>
    /\ UNCHANGED <<trimVars, compressVars>>
    /\ UNCHANGED <<brokerVars, workerVars, connVars, futureVars, streamVars, stripVars,
                   enter_order>>

\* restore_conversation: the loaded messages become the history of c; a
\* failed load is returned as it is
RestoreConversation(c, session_id) ==
    /\ LET loaded == load_conversation(fs_files, session_id)
       IN /\ fs_last' = Operation("restore", c, session_id, loaded.success,
                                  IF loaded.success THEN None ELSE loaded.result,
                                  loaded.accessed)
          /\ fs_history' = IF loaded.success
                           THEN [x \in DOMAIN fs_history \cup {c} |->
                                   IF x = c THEN loaded.result ELSE fs_history[x]]
                           ELSE fs_history
    /\ UNCHANGED <<fs_clock, fs_files, fs_chats>>
    /\ UNCHANGED <<trimVars, compressVars>>
    /\ UNCHANGED <<brokerVars, workerVars, connVars, futureVars, streamVars, stripVars,
                   enter_order>>

\* delete_conversation: the file is unlinked when the id resolves and the
\* file exists
DeleteConversation(session_id) ==
    /\ LET resolved == get_session_file_path(session_id) IN
       IF ~resolved.ok
       THEN /\ fs_last' = Operation("delete", None, session_id, FALSE, resolved.error, {})
            /\ UNCHANGED fs_files
       ELSE IF resolved.path \notin DOMAIN fs_files
       THEN /\ fs_last' = Operation("delete", None, session_id, FALSE, NoSuchSession,
                                    {resolved.path})
            /\ UNCHANGED fs_files
       ELSE /\ fs_last' = Operation("delete", None, session_id, TRUE, None, {resolved.path})
            /\ fs_files' = [x \in DOMAIN fs_files \ {resolved.path} |-> fs_files[x]]
    /\ UNCHANGED <<fs_clock, fs_history, fs_chats>>
    /\ UNCHANGED <<trimVars, compressVars>>
    /\ UNCHANGED <<brokerVars, workerVars, connVars, futureVars, streamVars, stripVars,
                   enter_order>>

\* list_conversations: every file of the directory is read
ListConversations ==
    /\ fs_last' = Operation("list", None, "", TRUE,
                            {SubSeq(name, 1, Len(name) - 5) : name \in DOMAIN fs_files},
                            DOMAIN fs_files)
    /\ UNCHANGED <<fs_clock, fs_files, fs_history, fs_chats>>
    /\ UNCHANGED <<trimVars, compressVars>>
    /\ UNCHANGED <<brokerVars, workerVars, connVars, futureVars, streamVars, stripVars,
                   enter_order>>

NextSession ==
    \/ Tick
    \/ ListConversations
    \/ \E c \in SessionConns : SessionChat(c) \/ SaveConversation(c)
    \/ \E session_id \in SessionArgs :
         \/ ResolveSessionPath(session_id)
         \/ LoadConversation(session_id)
         \/ DeleteConversation(session_id)
         \/ \E c \in SessionConns : RestoreConversation(c, session_id)

InitSession ==
    /\ InitServer
    /\ StripIdle
    /\ TrimIdle
    /\ CompressIdle
    /\ dev_mode
    /\ stream_sentence_mode
    /\ queue_max_size = MaxQueueSize
    /\ SessionIdle

SpecSession == InitSession /\ [][NextSession]_vars


\* a dot of s that is neither its first nor its last character
HasFilenameSuffix(s) == \E i \in 2..(Len(s) - 1) : Char(s, i) = "."

LastDotInside(s) ==
    \E i \in 2..(Len(s) - 1) :
        Char(s, i) = "." /\ \A j \in (i + 1)..Len(s) : Char(s, j) # "."

C28_SessionsKeptUntilDeleted ==
    [][/\ \A file \in DOMAIN fs_files :
            ~(fs_last'.op = "delete" /\ fs_last'.arg \o ".json" = file)
            => (file \in DOMAIN fs_files' /\ fs_files'[file] = fs_files[file])
       /\ (fs_last'.op = "save" /\ fs_last'.success)
          => (fs_last'.result \o ".json") \notin DOMAIN fs_files]_vars

\* what holds of the code: only a delete removes a session, and only a save
\* by the same connection in the same second writes over one
C28_OnlySameSecondSaveOverwrites ==
    [][\A file \in DOMAIN fs_files :
          \/ file \in DOMAIN fs_files' /\ fs_files'[file] = fs_files[file]
          \/ fs_last'.op = "delete" /\ fs_last'.success /\ fs_last'.arg \o ".json" = file
          \/ fs_last'.op = "save" /\ fs_last'.success /\ fs_last'.result \o ".json" = file
             /\ fs_clock' = fs_clock]_vars


---------------------------------------------------------------------------
(* Switching the provider *)

\* the frames of the two commands
SwitchModelFrames == {frame \in CommandFrames : frame.command = "switch_model"}
ChatCommandFrames == {frame \in CommandFrames : frame.command = "chat"}

\* the command is carried out: dev mode, or a stored token that is valid
Authorized(c) == dev_mode \/ tokens[c] = "valid"

\* C29: switch_model with the name of an available provider (compared in
\* lower case) clears the stored history of the connection and sets
\* current_provider to that name, and every chat submitted afterwards
\* carries the connection's current_provider and is run with it; with a
\* name that is not available the reply is an error and the history and
\* current_provider stay as they are.
C29_SwitchModel ==
    [][/\ \A c \in Conns, frame \in SwitchModelFrames :
            (HandleMessage(c, frame) /\ Authorized(c))
            => IF lower(frame.content) \in AvailableProviders
               THEN /\ state'[c].current_provider = lower(frame.content)
                    /\ c \notin DOMAIN conversation_histories'
                    /\ ws_sent'[c] = Append(ws_sent[c], Success("switched"))
               ELSE /\ state'[c].current_provider = state[c].current_provider
                    /\ conversation_histories' = conversation_histories
                    /\ ws_sent'[c] = Append(ws_sent[c], Error("no such provider"))
       /\ \A c \in Conns, frame \in ChatCommandFrames :
            HandleMessage(c, frame)
            => /\ state'[c].current_provider = state[c].current_provider
               /\ \A item \in request_queue' \ request_queue :
                     /\ item.connection_id = c
                     /\ item.payload.provider = state[c].current_provider
       /\ \A w \in Workers :
            WorkerStartRun(w)
            => run'[w].provider = IF worker_item[w].payload.provider = None
                                  THEN "deepseek"
                                  ELSE worker_item[w].payload.provider]_vars

\* a chat submitted after the switch to openai is being run with openai
C29_Witness ==
    \E c \in Conns : \E w \in Workers :
        /\ state[c].current_provider = "openai"
        /\ Success("switched") = ws_sent[c][Len(ws_sent[c])]
        /\ worker_item[w].connection_id = c
        /\ run[w].phase = "stream"
        /\ run[w].provider = "openai"

---------------------------------------------------------------------------
(* The requests a worker takes and the requests it marks done *)

\* the chat runs of SpecChat, with exceptions that leave _process_request and
\* with workers that are stopped
NextWorker ==
    \/ NextChat
    \/ \E w \in Workers : WorkerEscapingException(w)
    \/ \E w \in Workers : WorkerStop(w)

SpecWorker == InitRpc /\ [][NextWorker]_vars

\* the worker is between get_request and the end of _process_request
Processing(w) == worker_pc[w] \in {"wait_lock", "locked", "await_future"}

\* every lock that is held is held by a worker inside "async with"
LocksHeldByProcessing ==
    \A l \in 1..Len(locks) :
        locks[l].locked =>
            \E w \in Workers : worker_lock[w] = l /\ worker_pc[w] \in {"locked", "await_future"}

\* C30: for every request a worker takes, when processing ends (normally,
\* with an error event, with an exception or by cancellation) the worker has
\* released the connection lock and has marked the request done exactly
\* once; request_done is never called more often than get_request returned
C30_DoneExactlyOnce ==
    /\ LocksHeldByProcessing
    /\ \A w \in Workers :
         /\ request_done_calls[w] <= get_request_returns[w]
         /\ get_request_returns[w] - request_done_calls[w] = IF Processing(w) THEN 1 ELSE 0

\* the part of C30 the code keeps: the lock is released on every ending and
\* request_done is never called more often than get_request returned
C30_LockReleasedDoneAtMostOnce ==
    /\ LocksHeldByProcessing
    /\ \A w \in Workers :
         /\ request_done_calls[w] <= get_request_returns[w]
         /\ Processing(w) => request_done_calls[w] < get_request_returns[w]

\* a worker that took a request is not processing any more and has not
\* marked it done, while no lock is held
C30_Witness ==
    \E w \in Workers :
        /\ ~Processing(w)
        /\ get_request_returns[w] > request_done_calls[w]
        /\ \A l \in 1..Len(locks) : ~locks[l].locked

---------------------------------------------------------------------------
(* Application.stop *)

\* Application.stop after "await self.ws_server.stop()" has returned
\* (shutdown_all is done and the handlers of all connections have ended):
\* the workers are stopped one after the other, in the order of self.workers
ApplicationStopsWorker(w) ==
    /\ shutdown_pc = "done"
    /\ \A c \in Conns : conn_pc[c] \in {"new", "closed"}
    /\ \A v \in Workers : v < w => worker_pc[v] = "stopped"
    /\ WorkerStop(w)

\* the chat runs of SpecChat, and the application is stopped at any moment
NextStop ==
    \/ NextChat
    \/ ShutdownAll
    \/ ShutdownAwaited
    \/ ShutdownClosed
    \/ \E w \in Workers : ApplicationStopsWorker(w)

SpecStop == InitRpc /\ [][NextStop]_vars

\* C31: on shutdown a worker that is in the middle of a request finishes it
\* (its remaining chunks are enqueued, its history update is applied) before
\* its loop exits, and an idle worker exits without taking another request:
\* the loop of a worker exits only while the worker waits for a request, and
\* a worker whose loop has exited takes no request
C31_StopAfterCurrentRequest ==
    [][\A w \in Workers :
         /\ (worker_pc[w] # "stopped" /\ worker_pc'[w] = "stopped") => worker_pc[w] = "get"
         /\ worker_pc[w] = "stopped"
            => /\ worker_pc'[w] = "stopped"
               /\ get_request_returns'[w] = get_request_returns[w]]_vars

\* the part of C31 the code keeps: a worker whose loop has exited takes no
\* request, and holds no lock
C31_StoppedTakesNoRequest ==
    [][\A w \in Workers :
         worker_pc[w] = "stopped"
         => /\ worker_pc'[w] = "stopped"
            /\ get_request_returns'[w] = get_request_returns[w]
            /\ worker_lock[w] = 0]_vars

---------------------------------------------------------------------------
(* The order in which the chunks reach the socket *)

\* the chat runs of the workers (the model answers with plain text) with
\* the sender tasks at work, while the connection may close
NextSend ==
    \/ \E c \in Conns : Register(c)
    \/ \E c \in Conns : Unregister(c)
    \/ \E c \in Conns : UnregisterAfterCancel(c)
    \/ \E c \in Conns : SenderCancelled(c)
    \/ \E c \in Conns, frame \in ChatFrames :
         /\ sequence < MaxChats
         /\ HandleMessage(c, frame)
    \/ \E w \in Workers : WorkerGet(w)
    \/ \E w \in Workers : WorkerLockAcquired(w)
    \/ \E w \in Workers : WorkerStartRun(w)
    \/ \E w \in Workers : WorkerProviderError(w)
    \/ \E w \in Workers : WorkerContentEvent(w)
    \/ \E w \in Workers : WorkerTextCompletion(w)
    \/ \E w \in Workers : WorkerErrorEvent(w)
    \/ \E w \in Workers : WorkerException(w)
    \/ \E c \in Conns : SenderGet(c)
    \/ \E c \in Conns : SenderSent(c)

SpecSend == InitRpc /\ [][NextSend]_vars

\* the stream chunks among the items of a sequence
Chunks(items) == SelectSeq(items, LAMBDA item : item.type = "chunk")

\* the chunks of a connection from the socket back to the end of its response
\* queue: those sent, the one being sent and those queued
Pipeline(c) == sender_sent[c] \o Chunks(<<sender[c].response>>) \o Chunks(queue_items[c])

\* the chunks of an earlier submitted request come first, and the chunks of
\* one request come in increasing sequence
InRequestOrder(chunks) ==
    \A i, j \in DOMAIN chunks :
        i < j => \/ chunks[i].request < chunks[j].request
                 \/ /\ chunks[i].request = chunks[j].request
                    /\ chunks[i].sequence < chunks[j].sequence

\* C32: for every connection the sender task sends the items in the order
\* in which they were enqueued (an item is enqueued at the end of the queue,
\* the sender takes the first one and sends what it took, and only the end
\* of the connection empties the queue), so all chunks of
\* an earlier submitted request are sent before any chunk of a later one of
\* the connection, and the chunks of one request in increasing sequence
C32_SentInEnqueueOrder ==
    [][\A c \in Conns :
         /\ queue_items'[c] # queue_items[c]
            => \/ /\ Len(queue_items'[c]) = Len(queue_items[c]) + 1
                  /\ SubSeq(queue_items'[c], 1, Len(queue_items[c])) = queue_items[c]
               \/ /\ queue_items[c] # <<>>
                  /\ queue_items'[c] = Tail(queue_items[c])
                  /\ sender'[c].response = Head(queue_items[c])
               \/ /\ conn_pc'[c] # "open"
                  /\ queue_items'[c] = <<>>
         /\ sender_sent'[c] # sender_sent[c]
            => sender_sent'[c] = Append(sender_sent[c], sender[c].response)
         /\ InRequestOrder(Pipeline(c))']_vars

\* the sender has sent the two chunks of the first request and then a chunk
\* of the second
C32_Witness ==
    \E c \in Conns :
        /\ Len(sender_sent[c]) >= 3
        /\ sender_sent[c][1].request = sender_sent[c][2].request
        /\ sender_sent[c][3].request > sender_sent[c][2].request

---------------------------------------------------------------------------
(* The tool_events of the completion event.  Runs that call up to          *)
(* MaxNamedToolCalls tools of ToolNames, in both modes, with short texts   *)
(* around the calls.                                                       *)

MaxNamedToolCalls == 2     \* the function tool calls of a run of SpecTools

ToolRunDeltas == {<<"a">>, <<".">>}
ToolRunTexts == {<<>>, <<"a", ".">>}

NextTools ==
    \/ StreamChatStart
    \/ \E chunk \in ToolRunDeltas : StreamDelta(chunk)
    \/ \E id \in 1..MaxNamedToolCalls, tool_name \in ToolNames : StreamCallTools(id, tool_name)
    \/ StreamEnd
    \/ HandlerRaise
    \/ \E full_response \in ToolRunTexts, calls \in ToolCallSeqs(MaxNamedToolCalls, ToolNames) :
         NonStreamRun(full_response, calls)
    \/ StreamChatComplete

SpecTools == InitStream /\ [][NextTools]_vars

IsToolCall(node_event) == node_event.kind = "tool_call"

\* the tool calls the run made, in call order
ToolCallsMade == SelectSeq(node_events, IsToolCall)

\* C33: in both modes, the tool_events list of the completion event of a
\* run has exactly one entry for every tool call made during the run, in
\* call order, each with the name (and the id) of the tool call it stands
\* for, for runs without a tool call, with one and with several.
C33_ToolEventsOnePerCall ==
    (chat_pc = "done" /\ IsCompletion(events[Len(events)]))
    => LET tool_events == events[Len(events)].tool_events IN
        /\ Len(tool_events) = Len(ToolCallsMade)
        /\ \A i \in 1..Len(tool_events) :
            /\ tool_events[i].tool_name = ToolCallsMade[i].tool_name
            /\ tool_events[i].tool_call_id = ToolCallsMade[i].tool_call_id

\* a completed run that called two different tools
C33_Witness ==
    /\ chat_pc = "done"
    /\ IsCompletion(events[Len(events)])
    /\ Len(ToolCallsMade) = 2
    /\ ToolCallsMade[1].tool_name # ToolCallsMade[2].tool_name
    /\ Len(events[Len(events)].tool_events) = 2

---------------------------------------------------------------------------
(* The events of a run the worker turns into chunks, and those it does not *)

MaxEvents == 2     \* the events of a run that are not text with content
MaxEventChats == 1 \* the chat requests of SpecEvents

\* the chunk is put in the queue and the sequence stays as it was
send_chunk_same_sequence(w, chunk_type, content) ==
    /\ \E sent \in BOOLEAN :
         send_response(worker_item[w].connection_id,
                       StreamChunk(worker_item[w], chunk_type, content, run[w].sequence),
                       sent)
    /\ run' = [run EXCEPT ![w].event_count = @ + 1]

\* a chunk of chunk_type is put in the queue with the worker's sequence,
\* which is then incremented
send_chunk(w, chunk_type, content) ==
    /\ \E sent \in BOOLEAN :
         send_response(worker_item[w].connection_id,
                       StreamChunk(worker_item[w], chunk_type, content, run[w].sequence),
                       sent)
    /\ run' = [run EXCEPT ![w].sequence = @ + 1, ![w].event_count = @ + 1]

\* an event that is counted and gives no chunk
no_chunk(w) ==
    /\ run' = [run EXCEPT ![w].event_count = @ + 1]
    /\ UNCHANGED queue_items

\* one event of the run that does not end it
StreamEventStep(w) ==
    /\ worker_pc[w] = "locked"
    /\ run[w].phase = "stream"
    /\ run[w].event_count < MaxEvents
    /\ UNCHANGED <<request_queue, sequence, queue_max_size, response_queues,
                   connection_locks, locks, conversation_histories, worker_pc,
                   worker_item, worker_lock, worker_future, worker_result,
                   connVars, streamVars, stripVars, sideVars, taskVars, futureVars,
                   enter_order>>

\* a tool_call event: the formatted call goes out as a tool_call chunk
WorkerToolCallEvent(w) ==
    /\ StreamEventStep(w)
    /\ send_chunk(w, "tool_call", "call")

\* a tool_result event: the formatted result goes out as a tool_result
\* chunk when settings.tool_response_verbose is set, and nothing otherwise
WorkerToolResultEvent(w, tool_response_verbose) ==
    /\ StreamEventStep(w)
    /\ IF tool_response_verbose THEN send_chunk(w, "tool_result", "result")
       ELSE no_chunk(w)

\* a content or reasoning event whose content is empty: nothing is sent
WorkerEmptyEvent(w) ==
    /\ StreamEventStep(w)
    /\ no_chunk(w)

\* runs whose events are of every kind the worker tells apart, with the
\* connection closing in between
NextEvents ==
    \/ \E c \in Conns : Register(c)
    \/ \E c \in Conns : Unregister(c)
    \/ \E c \in Conns : UnregisterAfterCancel(c)
    \/ \E c \in Conns : SenderCancelled(c)
    \/ \E c \in Conns, frame \in ChatFrames :
         /\ sequence < MaxEventChats
         /\ HandleMessage(c, frame)
    \/ \E w \in Workers : WorkerGet(w)
    \/ \E w \in Workers : WorkerStartRun(w)
    \/ \E w \in Workers : WorkerProviderError(w)
    \/ \E w \in Workers : WorkerContentEvent(w)
    \/ \E w \in Workers : WorkerEmptyEvent(w)
    \/ \E w \in Workers : WorkerToolCallEvent(w)
    \/ \E w \in Workers, tool_response_verbose \in BOOLEAN :
         WorkerToolResultEvent(w, tool_response_verbose)
    \/ \E w \in Workers : WorkerTextCompletion(w)
    \/ \E w \in Workers : WorkerErrorEvent(w)
    \/ \E w \in Workers : WorkerException(w)

SpecEvents == InitRpc /\ [][NextEvents]_vars

\* worker w is in _process_request_locked for a request of connection c
ProcessingFor(w, c) ==
    worker_pc[w] = "locked" /\ worker_item[w].connection_id = c

\* the step puts a chunk of the request of worker w in the queue of c
Enqueues(w, c) ==
    /\ Len(queue_items'[c]) = Len(queue_items[c]) + 1
    /\ queue_items'[c][Len(queue_items'[c])].type = "chunk"
    /\ queue_items'[c][Len(queue_items'[c])].request = worker_item[w].sequence

\* C34: every step of a worker puts at most one chunk in the response
\* queue, and a worker never has sent more chunks than its run has had
\* events. A chunk enqueued for a request carries the worker's sequence for
\* that request, which starts at 0 and moves by one exactly when a chunk is
\* sent; a chunk is not enqueued only when the connection has no response
\* queue any more, and then none is enqueued after it: the chunks enqueued
\* for a request are numbered 0, 1, 2, ... in enqueue order, whichever events
\* gave no chunk, the error chunk that ends a run included.
C34_OneChunkPerEventInSequence ==
    [][\A c \in Conns :
        /\ Len(queue_items'[c]) <= Len(queue_items[c]) + 1
        /\ \A w \in Workers :
            /\ run'[w].sequence <= run'[w].event_count
            /\ (run[w].phase = "none" /\ run'[w].phase = "stream") => run'[w].sequence = 0
            /\ ProcessingFor(w, c) =>
                /\ Enqueues(w, c) =>
                    /\ queue_items'[c][Len(queue_items'[c])].sequence = run[w].sequence
                    /\ \/ run'[w].sequence = run[w].sequence + 1
                       \/ worker_pc'[w] # "locked"
                /\ (worker_pc'[w] = "locked" /\ run'[w].sequence # run[w].sequence) =>
                    /\ run'[w].sequence = run[w].sequence + 1
                    /\ Enqueues(w, c) \/ c \notin response_queues
                /\ c \notin response_queues =>
                    /\ c \notin response_queues'
                    /\ queue_items'[c] = queue_items[c]]_vars

\* a run that ended in an error after two chunks: they are numbered 0, 1 and
\* 2 in the queue, the last one the error chunk
C34_Witness ==
    \E c \in Conns :
        LET chunks == Chunks(queue_items[c]) IN
        /\ Len(chunks) = 3
        /\ chunks[1].chunk_type = "tool_call"
        /\ chunks[2].chunk_type = "tool_result"
        /\ chunks[3].chunk_type = "error"
        /\ chunks[3].sequence = 2
        /\ \A w \in Workers : worker_pc[w] = "get"

---------------------------------------------------------------------------
(* Clearing the history while chats are queued or in flight.  The server   *)
(* runs with a max_history_turns of 1 to MaxClearSetting; the player sends *)
(* chats and the commands that clear the history, and the workers complete *)
(* the chats.                                                              *)

MaxClearSetting == 3

\* "context 关闭", "context 清除" and a switch to an available model
ClearFrames ==
    {frame \in CommandFrames :
        \/ frame.command = "context" /\ frame.content \in {"off", "clear"}
        \/ frame.command = "switch_model" /\ frame.content = "OpenAI"}

NextClear ==
    \/ \E c \in Conns : Register(c)
    \/ \E c \in Conns, frame \in ChatFrames :
         /\ sequence < MaxChats
         /\ HandleMessage(c, frame)
    \/ \E c \in Conns, frame \in ClearFrames :
         /\ Len(ws_sent[c]) < MaxReplies
         /\ HandleMessage(c, frame)
    \/ \E w \in Workers : WorkerGet(w)
    \/ \E w \in Workers : WorkerLockAcquired(w)
    \/ \E w \in Workers : WorkerStartRun(w)
    \/ \E w \in Workers : WorkerCompletionEvent(w)

InitClear ==
    /\ InitServer
    /\ StripIdle
    /\ TrimIdle
    /\ SessionIdle
    /\ dev_mode
    /\ stream_sentence_mode
    /\ queue_max_size = MaxQueueSize
    /\ cm_setting \in 1..MaxClearSetting
    /\ cm_history = <<>>
    /\ cm_chats = 0
    /\ cm_forced = 0
    /\ cm_call = NoCall

SpecClear == InitClear /\ [][NextClear]_vars

\* worker w is about to complete a context-enabled request of c whose run
\* loaded a history that was cleared since
ClearedInFlight(w, c) ==
    /\ worker_pc[w] = "locked"
    /\ run[w].phase = "stream"
    /\ worker_item[w].connection_id = c
    /\ worker_item[w].payload.use_context
    /\ run[w].message_history # <<>>
    /\ get_conversation_history(c) = <<>>

\* the position of the prompt of the turn a history ends with; when a
\* compression has left no prompt, the position after the last message
LastPrompt(history) ==
    IF \A i \in DOMAIN history : history[i] # UserRequest THEN Len(history) + 1
    ELSE CHOOSE i \in DOMAIN history :
            /\ history[i] = UserRequest
            /\ \A j \in DOMAIN history : history[j] = UserRequest => j <= i

\* C35: when a context-enabled request of a connection completes after the
\* connection's history was cleared while the request was in flight, the
\* history stored by the completion holds, in front of the turn of the
\* request itself, no message of the history from before the clear (at most
\* the synthetic summary message of a compression).
C35_ClearedHistoryStaysCleared ==
    [][\A w \in Workers, c \in Conns :
        (ClearedInFlight(w, c) /\ worker_pc'[w] = "get")
        => LET history == get_conversation_history(c)' IN
           history # <<>> =>
               \A j \in 1..(LastPrompt(history) - 1) : IsSummaryMessage(history[j])]_vars

---------------------------------------------------------------------------
(* The size of the history a completion stores *)

\* C37: after the completion of a context-enabled chat request, and so
\* after every sequence of them on a connection, the stored history has at
\* most max_history_turns user turns (messages with a user-prompt part, the
\* summary message of a compression among them).
C37_AtMostMaxTurns ==
    (cm_call.called /\ ~cm_call.force) => count_turns(cm_history) <= cm_setting

\* ten turns under max_history_turns = 5: the last completion compressed
\* and left as many turns as the setting allows
C37_Witness ==
    /\ cm_setting = 5
    /\ cm_chats = MaxChatTurns
    /\ cm_call.called
    /\ ~cm_call.force
    /\ cm_call.success
    /\ count_turns(cm_call.before) = 5
    /\ count_turns(cm_history) = 5
---------------------------------------------------------------------------
(* Two connections.  Both register, send commands that clear the history   *)
(* or switch the model, answer commands and disconnect; one of them sends  *)
(* a chat, which a worker runs with tool calls while the sender tasks send. *)

TwoConns == {"c1", "c2"}

\* "context 关闭" and a switch to an available model: the commands that change
\* the context flag, the provider and the history
TwoCommandFrames == {frame \in ClearFrames : frame.content # "clear"}

\* the answers of the game to a command
TwoResponseFrames ==
    {frame \in ResponseFrames :
        /\ frame.eventName = None
        /\ frame.requestId # 0
        /\ frame.statusCode = 0
        /\ frame.statusMessage = ""}

NextTwo ==
    \/ \E c \in TwoConns : Register(c)
    \/ \E c \in TwoConns : Unregister(c)
    \/ \E c \in TwoConns : UnregisterAfterCancel(c)
    \/ \E c \in TwoConns : SenderCancelled(c)
    \/ \E c \in TwoConns, frame \in ChatFrames :
         /\ sequence = 0
         /\ HandleMessage(c, frame)
    \/ \E c \in TwoConns, frame \in TwoCommandFrames :
         /\ ws_sent[c] = <<>>
         /\ HandleMessage(c, frame)
    \/ \E c \in TwoConns, frame \in TwoResponseFrames : HandleMessage(c, frame)
    \/ \E w \in Workers : WorkerGet(w)
    \/ \E w \in Workers : WorkerStartRun(w)
    \/ \E w \in Workers : WorkerRunCommand(w)
    \/ \E w \in Workers : WorkerFutureResult(w)
    \/ \E w \in Workers : WorkerTextCompletion(w)
    \/ \E c \in TwoConns : SenderGet(c)
    \/ \E c \in TwoConns : SenderSent(c)

InitTwo ==
    /\ InitServerOf(TwoConns)
    /\ StripIdle
    /\ SideIdle
    /\ dev_mode
    /\ stream_sentence_mode
    /\ queue_max_size = MaxQueueSize

SpecTwo == InitTwo /\ [][NextTwo]_vars

\* the futures of the run_command calls made for a request of connection d
FuturesOf(d) == {f \in FutureIds : futures[f].state # "unborn" /\ futures[f].conn = d}

\* the step puts an item in the response queue of d, completes a command
\* future of d, or changes the stored history, the context flag or the
\* provider of d
Affects(d) ==
    \/ Len(queue_items'[d]) > Len(queue_items[d])
    \/ \E f \in FuturesOf(d) : futures'[f].resolutions > futures[f].resolutions
    \/ get_conversation_history(d)' # get_conversation_history(d)
    \/ state'[d].context_enabled # state[d].context_enabled
    \/ state'[d].current_provider # state[d].current_provider

\* the step is an operation on behalf of connection c: a frame of c is
\* handled, c is unregistered, or a worker takes or processes a request of c
OnBehalfOf(c) ==
    \/ \E frame \in ChatFrames \cup TwoCommandFrames \cup TwoResponseFrames :
         HandleMessage(c, frame)
    \/ Unregister(c)
    \/ UnregisterAfterCancel(c)
    \/ \E w \in Workers :
         /\ worker_item'[w] # NoItem
         /\ worker_item'[w].connection_id = c
         /\ WorkerGet(w)
    \/ \E w \in Workers :
         /\ worker_item[w] # NoItem
         /\ worker_item[w].connection_id = c
         /\ \/ WorkerLockAcquired(w)
            \/ WorkerStartRun(w)
            \/ WorkerRunCommand(w)
            \/ WorkerFutureResult(w)
            \/ WorkerTextCompletion(w)

\* C36: no operation on behalf of a connection c (its chat request and the
\* worker's processing of it, its commands, its commandResponse frames, its
\* unregister) enqueues an item to, resolves a command future of, or changes
\* the stored history, the context flag or the provider of another
\* connection d.
C36_NoCrossConnectionEffect ==
    [][\A d \in TwoConns : Affects(d) => \A c \in TwoConns \ {d} : ~OnBehalfOf(c)]_vars

\* the chat of one connection is in a tool call whose future is pending, with
\* a history stored for it, and the other connection is open and has had a
\* command answered
C36_Witness ==
    \E c, d \in TwoConns :
        /\ c # d
        /\ conn_pc[c] = "open"
        /\ conn_pc[d] = "open"
        /\ ws_sent[c] # <<>>
        /\ \E f \in pending_command_futures[d] : futures[f].state = "pending"
        /\ \E w \in Workers : worker_pc[w] = "await_future" /\ worker_item[w].connection_id = d

---------------------------------------------------------------------------
(* The delivery of the chunks.  A player sends chats with the command that *)
(* asks for tellraw and with the one that asks for scriptevent; the        *)
(* workers run them, with every ending of a run.                           *)

\* the chat frame of the chat_script command ("AGENT 脚本 <内容>")
ScriptChatFrames ==
    [messagePurpose : {"event"}, eventName : {"PlayerMessage"},
     sender : {"Steve"}, requestId : {0},
     statusCode : {0}, statusMessage : {""},
     command : {"chat_script"}, content : {"hi"}]

NextDelivery ==
    \/ \E c \in Conns : Register(c)
    \/ \E c \in Conns : Unregister(c)
    \/ \E c \in Conns : UnregisterAfterCancel(c)
    \/ \E c \in Conns : SenderCancelled(c)
    \/ \E c \in Conns, frame \in ChatFrames \cup ScriptChatFrames :
         /\ sequence < MaxChats
         /\ HandleMessage(c, frame)
    \/ \E w \in Workers : WorkerGet(w)
    \/ \E w \in Workers : WorkerLockAcquired(w)
    \/ \E w \in Workers : WorkerStartRun(w)
    \/ \E w \in Workers : WorkerProviderError(w)
    \/ \E w \in Workers : WorkerContentEvent(w)
    \/ \E w \in Workers : WorkerToolCallEvent(w)
    \/ \E w \in Workers, tool_response_verbose \in BOOLEAN :
         WorkerToolResultEvent(w, tool_response_verbose)
    \/ \E w \in Workers : WorkerTextCompletion(w)
    \/ \E w \in Workers : WorkerErrorEvent(w)
    \/ \E w \in Workers : WorkerException(w)

SpecDelivery == InitRpc /\ [][NextDelivery]_vars

\* the chunk the step puts in the queue of c for the request of worker w
EnqueuedChunk(c) == queue_items'[c][Len(queue_items'[c])]

\* C38: every StreamChunk enqueued while a worker processes a request carries
\* the delivery (tellraw or scriptevent) of that request, the error chunks of
\* a provider that cannot be resolved and of an exception in the stream
\* processing included.
C38_ChunksCarryRequestDelivery ==
    [][\A c \in Conns, w \in Workers :
        (ProcessingFor(w, c) /\ Enqueues(w, c))
            => EnqueuedChunk(c).delivery = worker_item[w].payload.delivery]_vars

\* the chunks of the events of a run (content, tool call, tool result, error
\* event) carry the delivery of the request; an error chunk of
\* _send_error_chunk always says tellraw
C38_EventChunksCarryDelivery ==
    [][\A c \in Conns, w \in Workers :
        (ProcessingFor(w, c) /\ Enqueues(w, c))
            => IF WorkerProviderError(w) \/ WorkerException(w)
               THEN EnqueuedChunk(c).delivery = "tellraw"
               ELSE EnqueuedChunk(c).delivery = worker_item[w].payload.delivery]_vars

\* a scriptevent request has had a content chunk and then its error chunk
\* enqueued
C38_Witness ==
    \E c \in Conns :
        /\ Len(queue_items[c]) = 2
        /\ queue_items[c][1].type = "chunk"
        /\ queue_items[c][1].chunk_type = "content"
        /\ queue_items[c][1].delivery = "scriptevent"
        /\ queue_items[c][2].type = "chunk"
        /\ queue_items[c][2].chunk_type = "error"
        /\ queue_items[c][2].request = queue_items[c][1].request

---------------------------------------------------------------------------
(* Progress of the workers.  Two connections send chats and are            *)
(* unregistered while their requests are queued or in flight; the workers  *)
(* take the requests, wait for the connection's lock, run them with        *)
(* run_command calls and end them in every way _process_request_locked     *)
(* handles.                                                                *)

\* the chat requests both connections submit together: two by one of them,
\* or one by each
MaxLiveChats == Cardinality(TwoConns)

\* the one run_command call of a behaviour, made by a tool during the run
WorkerRunCommandOnce(w) ==
    /\ run[w].phase = "stream"
    /\ futures[1].state = "unborn"
    /\ WorkerRunCommand(w)

NextLive ==
    \/ \E c \in TwoConns : Register(c)
    \/ \E c \in TwoConns : Unregister(c)
    \/ \E c \in TwoConns : UnregisterAfterCancel(c)
    \/ \E c \in TwoConns : SenderCancelled(c)
    \/ \E c \in TwoConns, frame \in ChatFrames :
         /\ sequence < MaxLiveChats
         /\ HandleMessage(c, frame)
    \/ \E w \in Workers : WorkerGet(w)
    \/ \E w \in Workers : WorkerLockAcquired(w)
    \/ \E w \in Workers : WorkerStartRun(w)
    \/ \E w \in Workers : WorkerRunCommandOnce(w)
    \/ \E w \in Workers : WorkerFutureResult(w)
    \/ \E w \in Workers : WorkerFutureTimeout(w)
    \/ \E w \in Workers : WorkerException(w)
    \/ \E w \in Workers : WorkerTextCompletion(w)

SpecLive == InitTwo /\ [][NextLive]_vars

\* the steps of the task of worker w: the event loop resumes a worker whose
\* await can return (a request is queued, the lock was handed to it, the
\* future is done or its 10 s have passed), and an agent run comes to one of
\* its ends
WorkerStep(w) ==
    \/ WorkerGet(w)
    \/ WorkerLockAcquired(w)
    \/ WorkerStartRun(w)
    \/ WorkerFutureResult(w)
    \/ WorkerFutureTimeout(w)
    \/ WorkerException(w)
    \/ WorkerTextCompletion(w)

SpecLiveFair == SpecLive /\ \A w \in Workers : WF_vars(WorkerStep(w))

\* the request with sequence number n waits in the request queue
Queued(n) == \E item \in request_queue : item.sequence = n

\* worker w has taken the request with sequence number n and not yet
\* finished with it
Held(w, n) == worker_item[w] # NoItem /\ worker_item[w].sequence = n

====
